---------------------------- MODULE Spec2Model ----------------------------
(***************************************************************************)
(* Moduleo report pipeline: the nine-step orchestrator of pipeline.py and  *)
(* the extraction / merge steps it sequences (import_tempspasses.py,       *)
(* fetch_affaire_tempspasses.py, fetch_affaire_details.py,                 *)
(* fetch_affaire_devis.py, fetch_affaire_factures.py).                     *)
(*                                                                         *)
(* The remote API is the environment: every GET answers with a final       *)
(* status (after the session's retries) and a JSON body, both chosen       *)
(* nondeterministically from bounded sets.  The CSV artifacts are the      *)
(* entries of the file system fs.  A pandas DataFrame / CSV file is a      *)
(* sequence of rows, a row a function from column names to values.         *)
(***************************************************************************)
EXTENDS Integers, Sequences, FiniteSets, TLC

VARIABLES
    pc,        \* "idle" (constructed), "running" (inside run_pipeline), "done"
    idx,       \* index (1..9) of the step the for loop of run_pipeline is at
    ret,       \* value returned by run_pipeline: "none" until it returns
    results,   \* ModuleoPipeline.results: result key -> path
    fs,        \* the artifacts on disk: path -> file
    started,   \* history: indices of the steps run_step was called for, in order
    okSteps,   \* history: indices of the steps whose callable returned
    remoteErr, \* history: steps in which a GET ended in a non-tolerated error
    lastIO,    \* history: what the last step asked the API and was answered
    http,      \* the GET the HTTP session is carrying out, attempt by attempt
    batch,     \* a *_multi fetcher at work: ids, chunk size, requests, records
    lookup,    \* a mapping lookup (_map_etat, _map_service, ...) and its outcome
    dash,      \* get_final_csv / prepare_dashboard_data: returned values, copy
    ui,        \* the Streamlit session of app.py: session_state and the runs started
    other      \* a second pipeline run working in the same directory

vars == <<pc, idx, ret, results, fs, started, okSteps, remoteErr, lastIO, http, batch,
          lookup, dash, ui, other>>

-----------------------------------------------------------------------------
(* Bounds of the exploration *)

\* entry (pointage) ids the remote API may return are 1..MaxEntry
MaxEntry == 2
\* longest body (number of records) of a batched detail response
MaxResp == 2

(* Python None / pandas NaN *)
NONE == -1

EntryIds == 1..MaxEntry

(* The hard-coded exclusion list of _export_unique_and_missing *)
ExcludedIds == {29966, 35659, 32207}

(* chunk_size default of the *_multi fetchers *)
chunk_size == 100

(* Number of declared steps, len(self.steps) *)
NSteps == 9

(* Date strings.  All dates lie in the year 2025.  A date string is        *)
(* either ISO ("2025-08-01T10:00:00": fmt "iso") or French day-first       *)
(* ("01/08/2025": fmt "dmy", no time of day); m, d, h are the month, day   *)
(* and hour it denotes.                                                    *)
Iso(m, d, h) == [fmt |-> "iso", m |-> m, d |-> d, h |-> h]
Dmy(d, m) == [fmt |-> "dmy", m |-> m, d |-> d, h |-> 0]

(* The period of the run (test_refactor.py): "01/07/2025" -> "31/07/2025" *)
date_start == Dmy(1, 7)
date_end == Dmy(31, 7)

-----------------------------------------------------------------------------
(* Generic helpers *)

BSeq(S, n) == UNION {[1..k -> S] : k \in 0..n}

Range(s) == {s[i] : i \in 1..Len(s)}

RECURSIVE SumSeq(_)
SumSeq(s) == IF s = <<>> THEN 0 ELSE Head(s) + SumSeq(Tail(s))

RECURSIVE Concat(_)
(* concatenation of the sequences ss[1], ss[2], ... *)
Concat(ss) == IF ss = <<>> THEN <<>> ELSE Head(ss) \o Concat(Tail(ss))

RECURSIVE SortedSeq(_)
(* sorted(...) of a set of integers *)
SortedSeq(S) ==
    IF S = {} THEN <<>>
    ELSE LET x == CHOOSE y \in S : \A z \in S : y <= z
         IN <<x>> \o SortedSeq(S \ {x})

(* dict.get(key): None when the key is missing *)
Get(rec, k) == IF k \in DOMAIN rec THEN rec[k] ELSE NONE

(* Python truthiness of a JSON number or None: None and 0 are falsy *)
Truthy(x) == x # NONE /\ x # 0

(* Python `a or b` *)
PyOr(a, b) == IF Truthy(a) THEN a ELSE b

-----------------------------------------------------------------------------
(* CSV files *)

AbsentFile == [st |-> "absent", sep |-> ",", cols |-> <<>>, rows |-> <<>>]

(* DataFrame(rows).to_csv(path, sep=sep): a DataFrame built from an empty *)
(* list has no columns, and its file holds no header.                     *)
ToCsv(cols, rows, sep) ==
    [st |-> "ok", sep |-> sep,
     cols |-> IF rows = <<>> THEN <<>> ELSE cols, rows |-> rows]

(* DataFrame with declared columns (pd.DataFrame({"idAffaire": ids}), or  *)
(* the result of a merge): the header is written even without rows.       *)
ToCsvCols(cols, rows, sep) ==
    [st |-> "ok", sep |-> sep, cols |-> cols, rows |-> rows]

(* pd.read_csv(path, sep=sep): raises when the file is missing            *)
(* (FileNotFoundError) or holds no column (EmptyDataError); a file written*)
(* with another separator is read as one column per line, which is the    *)
(* same table only when it has a single column.                           *)
ReadOk(f, sep) ==
    /\ f.st = "ok"
    /\ f.cols # <<>>
    /\ (f.sep = sep \/ Len(f.cols) = 1)

(* sep=None, engine='python': the separator is sniffed from the header *)
ReadOkSniff(f) == f.st = "ok" /\ f.cols # <<>>

-----------------------------------------------------------------------------
(* Date parsing.  A datetime is [m, d, h].  A JSON record without a date  *)
(* (null) has no such key; the empty CSV cell "" is NoDateStr.             *)

NoDateStr == [fmt |-> "", m |-> 0, d |-> 0, h |-> 0]

(* datetime.strptime(s, "%d/%m/%Y") and dateutil parse(s, dayfirst=True)   *)
(* of a day-first string: the first number is the day.                     *)
ParseDayFirst(s) == [m |-> s.m, d |-> s.d, h |-> s.h]

(* A closure date text that parser.parse rejects with ValueError *)
NotADate == [fmt |-> "text", m |-> 0, d |-> 0, h |-> 0]

(* try: parser.parse(date_cloture_str) except (ValueError, TypeError):     *)
(* whether the parse returns a datetime                                    *)
Parses(s) == s.fmt \in {"iso", "dmy"}

(* dateutil parser.parse(s) with its default dayfirst=False: an ISO string *)
(* is read as written; in "a/b/yyyy" the first number is the MONTH         *)
(* whenever it can be one (a <= 12), and the day otherwise.                *)
ParseDefault(s) ==
    IF s.fmt = "iso" THEN [m |-> s.m, d |-> s.d, h |-> s.h]
    ELSE IF s.d <= 12 THEN [m |-> s.d, d |-> s.m, h |-> 0]
    ELSE [m |-> s.m, d |-> s.d, h |-> 0]

(* datetime.fromisoformat(s), falling back to strptime(s, "%d/%m/%Y"):     *)
(* both formats are read as written.                                       *)
ParseIsoOrDmy(s) == [m |-> s.m, d |-> s.d, h |-> s.h]

(* datetime comparison a > b *)
DtAfter(a, b) == (a.m * 10000 + a.d * 100 + a.h) > (b.m * 10000 + b.d * 100 + b.h)

(* a.date() > b.date() *)
DayAfter(a, b) == (a.m * 100 + a.d) > (b.m * 100 + b.d)

(* dt.strftime("%Y%m") *)
Yyyymm(dt) == IF dt.m < 10 THEN "20250" \o ToString(dt.m) ELSE "2025" \o ToString(dt.m)

-----------------------------------------------------------------------------
(* Artifact names *)

RawPath(y) == "tempspasses_" \o y \o "_raw.csv"
EnrichedPath(y) == "tempspasses_" \o y \o "_affaires.csv"
UniquePath(y) == "unique_affaires_" \o y \o ".csv"
MissingPath(y) == "sans_affaire_" \o y \o ".csv"
TempsPath(y) == "tempspasses_affaires_" \o y \o ".csv"
PrixPath(y) == "prixventecollab_affaires_" \o y \o ".csv"
DetailsPath(y) == "affaires_acteur_service_" \o y \o ".csv"
CombinedPath(y) == "affaires_combinees_" \o y \o ".csv"

YM == Yyyymm(ParseDayFirst(date_start))

Paths == {RawPath(YM), EnrichedPath(YM), UniquePath(YM), MissingPath(YM),
          TempsPath(YM), PrixPath(YM), DetailsPath(YM), CombinedPath(YM)}

-----------------------------------------------------------------------------
(* The remote API *)

(* Final status of a GET once the session's retries are spent: 200, a 404 *)
(* (a 4xx outside the retry list) or a 503 still failing after the retries*)
ErrStatus == {404, 503}

(* The answers a GET may get: a 200 with one of the bodies, or an error *)
Resp(Payloads, Errs) ==
    {[status |-> 200, body |-> b] : b \in Payloads}
        \cup {[status |-> s, body |-> <<>>] : s \in Errs}

(* resp.raise_for_status(), and the RetryError SESSION.get raises when the *)
(* retries are spent                                                       *)
Raises(r) == r.status >= 400

(* The slicing that forgets the last, shorter chunk: only the full chunks  *)
(* of c ids                                                                *)
ChunksFullOnly(ids, c) ==
    [k \in 1..(Len(ids) \div c) |-> SubSeq(ids, (k - 1) * c + 1, k * c)]

RECURSIVE Chunks(_, _)
(* [ids[i : i + c] for i in range(0, len(ids), c)] *)
Chunks(ids, c) ==
    IF ids = <<>> THEN <<>>
    ELSE IF Len(ids) <= c THEN <<ids>>
    ELSE <<SubSeq(ids, 1, c)>> \o Chunks(SubSeq(ids, c + 1, Len(ids)), c)

NChunks(ids) == Len(Chunks(ids, chunk_size))

AnyRaises(resps) == \E i \in 1..Len(resps) : Raises(resps[i])

(* Positions of the answers that make the GET raise *)
RaisingAt(resps) == {i \in 1..Len(resps) : Raises(resps[i])}

(* The error that made a sequence of GETs stop: the status of the first   *)
(* answer among those at the positions bad, tagged with the kind of call;  *)
(* {} when there is none                                                   *)
FirstErr(resps, call, bad) ==
    IF bad = {} THEN {}
    ELSE {[call |-> call,
           status |-> resps[CHOOSE i \in bad : \A j \in bad : i <= j].status]}

(* All the errors of a sequence of GETs that goes on after a failed one *)
AllErrs(resps, call) ==
    {[call |-> call, status |-> resps[i].status] : i \in {j \in 1..Len(resps) : Raises(resps[j])}}

(* out.extend(data) over the chunks, in chunk order *)
ConcatBodies(resps) == Concat([i \in 1..Len(resps) |-> resps[i].body])

(* Outcome of a step callable: it returned path (ok) or raised; files is   *)
(* the disk it leaves; err holds the GETs of the step that ended in an     *)
(* error status the code does not treat as an empty answer.                *)
Return(files, path, err) == [ok |-> TRUE, fs |-> files, path |-> path, err |-> err]
Raise(files, err) == [ok |-> FALSE, fs |-> files, path |-> "", err |-> err]

-----------------------------------------------------------------------------
(* import_tempspasses.py *)

(* fetch_raw_tempspasses: one GET for the whole period, then save_raw_csv. *)
(* A pointage of the body is its id.                                       *)
fetch_raw_tempspasses(files, ds, r) ==
    IF Raises(r) THEN Raise(files, FirstErr(<<r>>, "get", RaisingAt(<<r>>)))
    ELSE LET y == Yyyymm(ParseDayFirst(ds))
             rows == [i \in 1..Len(r.body) |-> [idTempsPasse |-> r.body[i]]]
         IN Return([files EXCEPT ![RawPath(y)] = ToCsv(<<"idTempsPasse">>, rows, ",")],
                   RawPath(y), {})

(* ids = df[id_col].dropna().astype(int).tolist() *)
EntryIdsOf(f) == [i \in 1..Len(f.rows) |-> f.rows[i].idTempsPasse]

(* map_aff of _enrich_csv_with_affaire: the records are read in order and  *)
(* a later record for the same pointage overwrites an earlier one; a       *)
(* record without idAffaire sets nothing.                                  *)
RECURSIVE MapAff(_, _)
MapAff(details, pid) ==
    IF details = <<>> THEN NONE
    ELSE LET rec == details[Len(details)]
         IN IF Get(rec, "idTempsPasse") = pid /\ Get(rec, "idAffaire") # NONE
            THEN rec.idAffaire
            ELSE MapAff(SubSeq(details, 1, Len(details) - 1), pid)

(* Requests _enrich_csv_with_affaire issues: none when the raw CSV cannot  *)
(* be read, else one per chunk of ids.                                     *)
EnrichRequests(files, raw_path) ==
    IF ReadOk(files[raw_path], ",") THEN NChunks(EntryIdsOf(files[raw_path])) ELSE 0

(* _enrich_csv_with_affaire *)
enrich_with_affaire(files, raw_path, resps) ==
    IF ~ReadOk(files[raw_path], ",") THEN Raise(files, {})
    ELSE IF AnyRaises(resps) THEN Raise(files, FirstErr(resps, "multi", RaisingAt(resps)))
    ELSE LET df == files[raw_path].rows
             details == ConcatBodies(resps)
             rows == [i \in 1..Len(df) |->
                        [idTempsPasse |-> df[i].idTempsPasse,
                         idAffaire |-> MapAff(details, df[i].idTempsPasse)]]
             path == EnrichedPath(YM)
         IN Return([files EXCEPT ![path] =
                        ToCsvCols(<<"idTempsPasse", "idAffaire">>, rows, ",")],
                   path, {})

(* unique_ids without the exclusion list: every case id of the enriched    *)
(* file is kept                                                            *)
UniqueIdsNoExclusion(df) ==
    SortedSeq({df[i].idAffaire : i \in {j \in 1..Len(df) : df[j].idAffaire # NONE}})

(* unique_ids of _export_unique_and_missing *)
UniqueIds(df) ==
    LET raw_ids == {df[i].idAffaire : i \in {j \in 1..Len(df) : df[j].idAffaire # NONE}}
    IN SortedSeq({i \in raw_ids : i \notin ExcludedIds})

(* The export that writes sans_affaire with its header and no row *)
export_unique_only(files, enriched_path) ==
    IF ~ReadOk(files[enriched_path], ",") THEN Raise(files, {})
    ELSE LET ids == UniqueIds(files[enriched_path].rows)
             df_unique == [i \in 1..Len(ids) |-> [idAffaire |-> ids[i]]]
         IN Return([files EXCEPT
                       ![UniquePath(YM)] = ToCsvCols(<<"idAffaire">>, df_unique, ","),
                       ![MissingPath(YM)] =
                            ToCsvCols(<<"idTempsPasse", "idAffaire">>, <<>>, ",")],
                   UniquePath(YM), {})

(* export_unique_affaires / _export_unique_and_missing *)
export_unique_affaires(files, enriched_path) ==
    IF ~ReadOk(files[enriched_path], ",") THEN Raise(files, {})
    ELSE LET df == files[enriched_path].rows
             ids == UniqueIds(df)
             IsNa(row) == row.idAffaire = NONE
             df_unique == [i \in 1..Len(ids) |-> [idAffaire |-> ids[i]]]
         IN Return([files EXCEPT
                       ![UniquePath(YM)] = ToCsvCols(<<"idAffaire">>, df_unique, ","),
                       ![MissingPath(YM)] =
                            ToCsvCols(<<"idTempsPasse", "idAffaire">>,
                                      SelectSeq(df, IsNa), ",")],
                   UniquePath(YM), {})

-----------------------------------------------------------------------------
(* fetch_affaire_tempspasses.py *)

(* affaire_ids = df_u["idAffaire"].dropna().astype(int).tolist() *)
AffaireIdsOf(f) == [i \in 1..Len(f.rows) |-> f.rows[i].idAffaire]

(* Per-case GETs a step issues after reading unique_affaires with sep: one *)
(* per case id, none when the file cannot be read.                         *)
CaseRequests(files, y, sep) ==
    IF ReadOk(files[UniquePath(y)], sep) THEN Len(files[UniquePath(y)].rows) ELSE 0

(* The save that writes tempspasses_affaires only when it has a record *)
save_affaires_if_any(files, affaire_ids, resps, y) ==
    LET Recs(i) == IF Raises(resps[i]) THEN <<>>
                   ELSE [j \in 1..Len(resps[i].body) |->
                            [idTempsPasse |-> resps[i].body[j],
                             idAffaire |-> affaire_ids[i]]]
        all_records == Concat([i \in 1..Len(affaire_ids) |-> Recs(i)])
    IN IF all_records = <<>> THEN files
       ELSE [files EXCEPT ![TempsPath(y)] =
                ToCsv(<<"idTempsPasse", "idAffaire">>, all_records, ",")]

(* save_affaires_tempspasses: the try/except around each per-case fetch    *)
(* prints the error and goes on with the next case.  A record of the body  *)
(* is a pointage id; every record is stamped with the case it was asked for*)
save_affaires_tempspasses(files, affaire_ids, resps, y) ==
    LET Recs(i) == IF Raises(resps[i]) THEN <<>>
                   ELSE [j \in 1..Len(resps[i].body) |->
                            [idTempsPasse |-> resps[i].body[j],
                             idAffaire |-> affaire_ids[i]]]
        all_records == Concat([i \in 1..Len(affaire_ids) |-> Recs(i)])
    IN [files EXCEPT ![TempsPath(y)] =
            ToCsv(<<"idTempsPasse", "idAffaire">>, all_records, ",")]

(* fetch_and_export_affaires *)
fetch_and_export_affaires(files, ds, resps) ==
    LET y == Yyyymm(ParseDayFirst(ds))
    IN IF ~ReadOk(files[UniquePath(y)], ",") THEN Raise(files, {})
       ELSE Return(save_affaires_tempspasses(
                       files, AffaireIdsOf(files[UniquePath(y)]), resps, y),
                   TempsPath(y), AllErrs(resps, "get"))

(* records of calc_prixventecollab: the detail records kept by the date    *)
(* filter (date_dt and date_dt > dt_end: skipped), with their price        *)
(* (None -> 0.0).                                                          *)
PrixRecords(details, dt_end) ==
    LET Keep(rec) ==
            ~("Date" \in DOMAIN rec /\ DtAfter(ParseIsoOrDmy(rec.Date), dt_end))
        Row(rec) ==
            [idTempsPasse |-> Get(rec, "idTempsPasse"),
             PrixVenteCollaborateur |->
                IF Get(rec, "PrixVenteCollaborateur") # NONE
                THEN rec.PrixVenteCollaborateur ELSE 0]
        kept == SelectSeq(details, Keep)
    IN [i \in 1..Len(kept) |-> Row(kept[i])]

(* df.merge(df_det, on="idTempsPasse", how="left"): every row of df, once  *)
(* per matching row of df_det, or once with a NaN price when none matches  *)
MergeLeftPrix(df, df_det) ==
    LET Rows(row) ==
            LET Match(r) == r.idTempsPasse = row.idTempsPasse
                hits == SelectSeq(df_det, Match)
            IN IF hits = <<>>
               THEN <<[idTempsPasse |-> row.idTempsPasse, idAffaire |-> row.idAffaire,
                       PrixVenteCollaborateur |-> NONE]>>
               ELSE [i \in 1..Len(hits) |->
                        [idTempsPasse |-> row.idTempsPasse, idAffaire |-> row.idAffaire,
                         PrixVenteCollaborateur |-> hits[i].PrixVenteCollaborateur]]
    IN Concat([i \in 1..Len(df) |-> Rows(df[i])])

(* The aggregation that keeps, for every case id, the value of its last    *)
(* row instead of the sum                                                  *)
GroupLast(df, col) ==
    LET keys == SortedSeq({df[i].idAffaire : i \in 1..Len(df)})
        Val(row) == IF row[col] = NONE THEN 0 ELSE row[col]
        Last(k) == LET Of(row) == row.idAffaire = k
                       grp == SelectSeq(df, Of)
                   IN Val(grp[Len(grp)])
    IN [i \in 1..Len(keys) |-> [idAffaire |-> keys[i], total |-> Last(keys[i])]]

(* df.groupby("idAffaire")[col].sum().reset_index(): one row per case id,  *)
(* in ascending id order; NaN counts for nothing                           *)
GroupSum(df, col) ==
    LET keys == SortedSeq({df[i].idAffaire : i \in 1..Len(df)})
        Val(row) == IF row[col] = NONE THEN 0 ELSE row[col]
        Total(k) == LET Of(row) == row.idAffaire = k
                        grp == SelectSeq(df, Of)
                    IN SumSeq([i \in 1..Len(grp) |-> Val(grp[i])])
    IN [i \in 1..Len(keys) |-> [idAffaire |-> keys[i], total |-> Total(keys[i])]]

(* Requests fetch_tempspasses_multi issues in calc_prixventecollab *)
CalcRequests(files, y) ==
    IF ReadOk(files[TempsPath(y)], ",") THEN NChunks(EntryIdsOf(files[TempsPath(y)])) ELSE 0

(* calc_prixventecollab: an empty record list makes df_det a frame without *)
(* columns, and the merge on "idTempsPasse" raises KeyError                *)
calc_prixventecollab(files, y, date_max, resps) ==
    IF ~ReadOk(files[TempsPath(y)], ",") THEN Raise(files, {})
    ELSE IF AnyRaises(resps) THEN Raise(files, FirstErr(resps, "multi", RaisingAt(resps)))
    ELSE LET dt_end == ParseDayFirst(date_max)
             df == files[TempsPath(y)].rows
             records == PrixRecords(ConcatBodies(resps), dt_end)
         IN IF records = <<>> THEN Raise(files, {})
            ELSE LET sums == GroupSum(MergeLeftPrix(df, records), "PrixVenteCollaborateur")
                     df_sum == [i \in 1..Len(sums) |->
                                  [idAffaire |-> sums[i].idAffaire,
                                   PrixVenteCollaborateur |-> sums[i].total]]
                 IN Return([files EXCEPT ![PrixPath(y)] =
                               ToCsvCols(<<"idAffaire", "PrixVenteCollaborateur">>,
                                         df_sum, ",")],
                           PrixPath(y), {})

(* calculate_prix_for_period: fetch_and_export_affaires again, then        *)
(* calc_prixventecollab on the file it wrote                               *)
calculate_prix_for_period(files, ds, de, per, det) ==
    LET a == fetch_and_export_affaires(files, ds, per)
    IN IF ~a.ok THEN a
       ELSE LET c == calc_prixventecollab(a.fs, Yyyymm(ParseDayFirst(ds)), de, det)
            IN [c EXCEPT !.err = a.err \cup c.err]

-----------------------------------------------------------------------------
(* fetch_affaire_details.py *)

ETAT_MAPPING ==
    (4 :> "Creee") @@ (8 :> "EnAttente") @@ (7 :> "Acceptee") @@ (1 :> "Production")
        @@ (5 :> "Terminee") @@ (9 :> "Suspendue") @@ (2 :> "Cloturee") @@ (6 :> "Annulee")

(* _map_etat: the label of a known code, else the value itself (here as    *)
(* the text of its CSV cell: "" for None)                                  *)
_map_etat(val) ==
    IF val # NONE /\ val \in DOMAIN ETAT_MAPPING THEN ETAT_MAPPING[val]
    ELSE IF val = NONE THEN "" ELSE ToString(val)

(* One row of save_affaire_details (lines 105-125); the columns Numero,    *)
(* Objet, Service and Collaborateur are copied from the record and carry   *)
(* no logic of the merge steps.                                           *)
DetailRow(rec, dt_end) ==
    LET has_date == "DateCloture" \in DOMAIN rec
        etat_mapped == _map_etat(Get(rec, "Etat"))
        reclass == /\ etat_mapped = "Cloturee"
                   /\ has_date
                   /\ Parses(rec.DateCloture)
                   /\ DayAfter(ParseDefault(rec.DateCloture), dt_end)
    IN [idAffaire |-> rec.idAffaire,
        Etat |-> IF reclass THEN "Production" ELSE etat_mapped,
        DateCloture |-> IF has_date THEN rec.DateCloture ELSE NoDateStr]

(* save_affaire_details: records without idAffaire are skipped *)
save_affaire_details(files, affaire_ids, y, de, resps) ==
    IF AnyRaises(resps) THEN Raise(files, FirstErr(resps, "multi", RaisingAt(resps)))
    ELSE LET dt_end == ParseDayFirst(de)
             HasId(rec) == Get(rec, "idAffaire") # NONE
             kept == SelectSeq(ConcatBodies(resps), HasId)
             rows == [i \in 1..Len(kept) |-> DetailRow(kept[i], dt_end)]
         IN Return([files EXCEPT ![DetailsPath(y)] =
                        ToCsv(<<"idAffaire", "Etat", "DateCloture">>, rows, ";")],
                   DetailsPath(y), {})

(* Requests fetch_affaires_multi issues in fetch_and_save_details *)
DetailRequests(files, y) ==
    IF ReadOk(files[UniquePath(y)], ";") THEN NChunks(AffaireIdsOf(files[UniquePath(y)])) ELSE 0

(* fetch_and_save_details *)
fetch_and_save_details(files, ds, de, resps) ==
    LET y == Yyyymm(ParseDayFirst(ds))
    IN IF ~ReadOk(files[UniquePath(y)], ";") THEN Raise(files, {})
       ELSE save_affaire_details(files, AffaireIdsOf(files[UniquePath(y)]), y, de, resps)

(* df_details.merge(df_prix, on="idAffaire", how="inner"): every row of    *)
(* df_details, once per row of df_prix with the same idAffaire, in the     *)
(* order of df_details; rows without a match are dropped                   *)
MergeInner(df_details, df_prix) ==
    LET Rows(row) ==
            LET Match(r) == r.idAffaire = row.idAffaire
                hits == SelectSeq(df_prix, Match)
            IN [i \in 1..Len(hits) |->
                    row @@ ("PrixVenteCollaborateur" :> hits[i].PrixVenteCollaborateur)]
    IN Concat([i \in 1..Len(df_details) |-> Rows(df_details[i])])

(* merge_with_prixventecollab *)
merge_with_prixventecollab(files, details_file, y) ==
    IF ~ReadOk(files[details_file], ";") \/ ~ReadOkSniff(files[PrixPath(y)])
    THEN Raise(files, {})
    ELSE LET merged == MergeInner(files[details_file].rows, files[PrixPath(y)].rows)
         IN Return([files EXCEPT ![CombinedPath(y)] =
                        ToCsvCols(files[details_file].cols \o <<"PrixVenteCollaborateur">>,
                                  merged, ";")],
                   CombinedPath(y), {})

(* fetch_and_merge_details: fetch_and_save_details again, then the merge *)
fetch_and_merge_details(files, ds, de, resps) ==
    LET a == fetch_and_save_details(files, ds, de, resps)
    IN IF ~a.ok THEN a
       ELSE merge_with_prixventecollab(a.fs, a.path, Yyyymm(ParseDayFirst(ds)))

-----------------------------------------------------------------------------
(* fetch_affaire_devis.py and fetch_affaire_factures.py *)

(* id_to_aff: the id lists are read case by case, in the order of          *)
(* affaire_ids, and a later case overwrites an earlier one for the same id *)
RECURSIVE IdToAff(_, _, _)
IdToAff(affaire_ids, id_lists, id) ==
    IF affaire_ids = <<>> THEN NONE
    ELSE LET n == Len(affaire_ids)
         IN IF id \in Range(id_lists[n]) THEN affaire_ids[n]
            ELSE IdToAff(SubSeq(affaire_ids, 1, n - 1), SubSeq(id_lists, 1, n - 1), id)

(* list(set(all_ids)) *)
AllIds(id_lists) == SortedSeq(UNION {Range(id_lists[i]) : i \in 1..Len(id_lists)})

(* fetch_affaire_devis: any status >= 400 raises; the body lists quote ids *)
fetch_affaire_devis(r) ==
    IF Raises(r) THEN [ok |-> FALSE, ids |-> <<>>] ELSE [ok |-> TRUE, ids |-> r.body]

(* fetch_affaire_facture_ids: a 404 is an empty list; any other status     *)
(* >= 400 raises                                                           *)
fetch_affaire_facture_ids(r) ==
    IF r.status = 404 THEN [ok |-> TRUE, ids |-> <<>>]
    ELSE IF Raises(r) THEN [ok |-> FALSE, ids |-> <<>>]
    ELSE [ok |-> TRUE, ids |-> r.body]

(* Records that credit an ordered quote to every case that lists it *)
DevisRecordsEveryCase(details, affaire_ids, id_lists) ==
    LET Ordered(rec) == Get(rec, "Etat") = 0
        kept == SelectSeq(details, Ordered)
        PerCase(rec) ==
            Concat([k \in 1..Len(affaire_ids) |->
                      IF rec.idDevis \in Range(id_lists[k])
                      THEN <<[idAffaire |-> affaire_ids[k],
                              MontantTotalHT |-> rec.MontantTotalHT]>>
                      ELSE <<>>])
    IN Concat([i \in 1..Len(kept) |-> PerCase(kept[i])])

(* records of update_affaires_combinees_with_devis (lines 102-121): the    *)
(* quotes whose state reads as 0, with the case their id was listed under  *)
DevisRecords(details, affaire_ids, id_lists) ==
    LET Etat(rec) == PyOr(Get(rec, "etat"), Get(rec, "Etat"))
        Did(rec) == PyOr(Get(rec, "idDevis"), Get(rec, "IdDevis"))
        Keep(rec) == /\ Etat(rec) = 0
                     /\ Did(rec) # NONE
                     /\ IdToAff(affaire_ids, id_lists, Did(rec)) # NONE
        Montant(rec) ==
            PyOr(PyOr(Get(rec, "montantTotalHT"), Get(rec, "MontantTotalHT")), 0)
        kept == SelectSeq(details, Keep)
    IN [i \in 1..Len(kept) |->
            [idAffaire |-> IdToAff(affaire_ids, id_lists, Did(kept[i])),
             MontantTotalHT |-> Montant(kept[i])]]

(* Drop column col of every row (df.drop(columns=[col]) when present) *)
DropCol(df, col) ==
    [i \in 1..Len(df) |-> [c \in DOMAIN df[i] \ {col} |-> df[i][c]]]

DropName(cols, col) == LET Other(c) == c # col IN SelectSeq(cols, Other)

(* The merge that keeps, of every row, only the key and the merged column *)
MergeKeyOnly(df, agg, col, dflt) ==
    LET Val(row) ==
            LET Match(r) == r.idAffaire = row.idAffaire
                hits == SelectSeq(agg, Match)
            IN IF hits = <<>> THEN dflt ELSE hits[1].total
    IN [i \in 1..Len(df) |-> [idAffaire |-> df[i].idAffaire] @@ (col :> Val(df[i]))]

(* df.merge(agg, on="idAffaire", how="left") followed by fillna(dflt) on   *)
(* the merged column: agg holds at most one row per idAffaire (groupby)    *)
MergeLeftFill(df, agg, col, dflt) ==
    LET Val(row) ==
            LET Match(r) == r.idAffaire = row.idAffaire
                hits == SelectSeq(agg, Match)
            IN IF hits = <<>> THEN dflt ELSE hits[1].total
    IN [i \in 1..Len(df) |-> df[i] @@ (col :> Val(df[i]))]

(* The rewrite of the combined file with an inner merge and no default:    *)
(* only the cases that have an ordered quote are kept                      *)
MergeDevisInner(combined, records) ==
    LET df_combined == DropCol(combined.rows, "MontantTotalHT")
        cols == DropName(combined.cols, "MontantTotalHT") \o <<"MontantTotalHT">>
        df_sum == GroupSum(records, "MontantTotalHT")
        Rows(row) ==
            LET Match(r) == r.idAffaire = row.idAffaire
                hits == SelectSeq(df_sum, Match)
            IN [i \in 1..Len(hits) |-> row @@ ("MontantTotalHT" :> hits[i].total)]
    IN ToCsvCols(cols, Concat([i \in 1..Len(df_combined) |-> Rows(df_combined[i])]), ";")

(* The rewrite of the combined file that keeps the column it finds and     *)
(* adds the new totals to it                                               *)
MergeDevisAccumulate(combined, records) ==
    LET Old(row) == IF "MontantTotalHT" \in DOMAIN row THEN row.MontantTotalHT ELSE 0
        df_combined == DropCol(combined.rows, "MontantTotalHT")
        cols == DropName(combined.cols, "MontantTotalHT") \o <<"MontantTotalHT">>
        merged == MergeLeftFill(df_combined, GroupSum(records, "MontantTotalHT"),
                                "MontantTotalHT", 0)
    IN ToCsvCols(cols,
                 [i \in 1..Len(merged) |->
                    [merged[i] EXCEPT !.MontantTotalHT = @ + Old(combined.rows[i])]],
                 ";")

(* Lines 123-137 of update_affaires_combinees_with_devis: rewrite of the   *)
(* combined file with the column MontantTotalHT                            *)
MergeDevis(combined, records) ==
    LET df_combined == DropCol(combined.rows, "MontantTotalHT")
        cols == DropName(combined.cols, "MontantTotalHT") \o <<"MontantTotalHT">>
        rows == IF records = <<>>
                THEN [i \in 1..Len(df_combined) |->
                        df_combined[i] @@ ("MontantTotalHT" :> 0)]
                ELSE MergeLeftFill(df_combined, GroupSum(records, "MontantTotalHT"),
                                   "MontantTotalHT", 0)
    IN ToCsvCols(cols, rows, ";")

(* ids returned by the per-case list calls, in case order *)
IdLists(fetched) == [i \in 1..Len(fetched) |-> fetched[i].ids]

ListFails(fetched) == \E i \in 1..Len(fetched) : ~fetched[i].ok

(* Requests fetch_devis_multi / fetch_facture_multi issue: none when a     *)
(* list call raised, else one per chunk of the distinct ids                *)
MultiRequests(fetched) ==
    IF ListFails(fetched) THEN 0 ELSE NChunks(AllIds(IdLists(fetched)))

(* The update that first writes the combined file with an empty quote      *)
(* column and only then fetches the quote details                          *)
update_devis_write_first(files, affaire_ids, y, lists, det) ==
    LET fetched == [i \in 1..Len(lists) |-> fetch_affaire_devis(lists[i])]
        bad == {i \in 1..Len(lists) : ~fetched[i].ok}
        cleared == IF ReadOk(files[CombinedPath(y)], ";")
                   THEN [files EXCEPT ![CombinedPath(y)] =
                            MergeDevis(files[CombinedPath(y)], <<>>)]
                   ELSE files
    IN IF ListFails(fetched) THEN Raise(files, FirstErr(lists, "list", bad))
       ELSE IF AnyRaises(det)
       THEN Raise(cleared, FirstErr(det, "multi", RaisingAt(det)))
       ELSE IF ~ReadOk(files[CombinedPath(y)], ";") THEN Raise(files, {})
       ELSE LET records == DevisRecords(ConcatBodies(det), affaire_ids, IdLists(fetched))
            IN Return([files EXCEPT ![CombinedPath(y)] =
                           MergeDevis(files[CombinedPath(y)], records)],
                      CombinedPath(y), {})

(* update_affaires_combinees_with_devis *)
update_affaires_combinees_with_devis(files, affaire_ids, y, lists, det) ==
    LET fetched == [i \in 1..Len(lists) |-> fetch_affaire_devis(lists[i])]
        bad == {i \in 1..Len(lists) : ~fetched[i].ok}
    IN IF ListFails(fetched) THEN Raise(files, FirstErr(lists, "list", bad))
       ELSE IF AnyRaises(det) THEN Raise(files, FirstErr(det, "multi", RaisingAt(det)))
       ELSE IF ~ReadOk(files[CombinedPath(y)], ";") THEN Raise(files, {})
       ELSE LET records == DevisRecords(ConcatBodies(det), affaire_ids, IdLists(fetched))
            IN Return([files EXCEPT ![CombinedPath(y)] =
                           MergeDevis(files[CombinedPath(y)], records)],
                      CombinedPath(y), {})

(* fetch_and_update_devis *)
fetch_and_update_devis(files, ds, lists, det) ==
    LET y == Yyyymm(ParseDayFirst(ds))
    IN IF ~ReadOk(files[UniquePath(y)], ";") THEN Raise(files, {})
       ELSE update_affaires_combinees_with_devis(
                files, AffaireIdsOf(files[UniquePath(y)]), y, lists, det)

(* The characters of a date string, as character codes: "dd/mm/2025" or   *)
(* "2025-mm-ddThh:00:00"; "" is the empty sequence                         *)
Digits2(n) == <<48 + (n \div 10), 48 + (n % 10)>>

Chars(s) ==
    IF s.fmt = "" THEN <<>>
    ELSE IF s.fmt = "dmy"
    THEN Digits2(s.d) \o <<47>> \o Digits2(s.m) \o <<47, 50, 48, 50, 53>>
    ELSE <<50, 48, 50, 53, 45>> \o Digits2(s.m) \o <<45>> \o Digits2(s.d)
            \o <<84>> \o Digits2(s.h) \o <<58, 48, 48, 58, 48, 48>>

RECURSIVE SeqLess(_, _)
(* lexicographic a < b *)
SeqLess(a, b) ==
    IF b = <<>> THEN FALSE
    ELSE IF a = <<>> THEN TRUE
    ELSE IF Head(a) # Head(b) THEN Head(a) < Head(b)
    ELSE SeqLess(Tail(a), Tail(b))

(* Python str comparison a < b of two date strings *)
StrLess(a, b) == SeqLess(Chars(a), Chars(b))

(* max() of a non-empty sequence of strings *)
StrMax(ss) == CHOOSE x \in Range(ss) : \A z \in Range(ss) : ~StrLess(x, z)

(* records of update_affaires_combinees_with_factures (lines 85-105) *)
FactureRecords(details, affaire_ids, id_lists) ==
    LET Fid(rec) == PyOr(Get(rec, "idFacture"), Get(rec, "IdFacture"))
        Keep(rec) == /\ Fid(rec) # NONE
                     /\ IdToAff(affaire_ids, id_lists, Fid(rec)) # NONE
        Montant(rec) == IF Get(rec, "MontantTotalHT") = NONE THEN 0 ELSE rec.MontantTotalHT
        kept == SelectSeq(details, Keep)
    IN [i \in 1..Len(kept) |->
            [idAffaire |-> IdToAff(affaire_ids, id_lists, Fid(kept[i])),
             MontantFacturesHT |-> Montant(kept[i]),
             DateEmission |-> IF "DateEmission" \in DOMAIN kept[i]
                              THEN kept[i].DateEmission ELSE NoDateStr]]

(* df.groupby("idAffaire")["DateEmission"].max().reset_index() *)
GroupMaxDate(df) ==
    LET keys == SortedSeq({df[i].idAffaire : i \in 1..Len(df)})
        Latest(k) == LET Of(row) == row.idAffaire = k
                         grp == SelectSeq(df, Of)
                     IN StrMax([i \in 1..Len(grp) |-> grp[i].DateEmission])
    IN [i \in 1..Len(keys) |-> [idAffaire |-> keys[i], total |-> Latest(keys[i])]]

(* Lines 107-134 of update_affaires_combinees_with_factures *)
MergeFactures(combined, records) ==
    LET df_comb == DropCol(DropCol(combined.rows, "MontantFacturesHT"),
                           "DateEmission_Facture")
        cols == DropName(DropName(combined.cols, "MontantFacturesHT"),
                         "DateEmission_Facture")
                    \o <<"MontantFacturesHT", "DateEmission_Facture">>
        with_sum == MergeLeftFill(df_comb, GroupSum(records, "MontantFacturesHT"),
                                  "MontantFacturesHT", 0)
    IN ToCsvCols(cols,
                 MergeLeftFill(with_sum, GroupMaxDate(records),
                               "DateEmission_Facture", NoDateStr),
                 ";")

(* update_affaires_combinees_with_factures *)
update_affaires_combinees_with_factures(files, affaire_ids, y, lists, det) ==
    LET fetched == [i \in 1..Len(lists) |-> fetch_affaire_facture_ids(lists[i])]
        bad == {i \in 1..Len(lists) : ~fetched[i].ok}
    IN IF ListFails(fetched) THEN Raise(files, FirstErr(lists, "list", bad))
       ELSE IF AnyRaises(det) THEN Raise(files, FirstErr(det, "multi", RaisingAt(det)))
       ELSE IF ~ReadOk(files[CombinedPath(y)], ";") THEN Raise(files, {})
       ELSE LET records == FactureRecords(ConcatBodies(det), affaire_ids, IdLists(fetched))
            IN Return([files EXCEPT ![CombinedPath(y)] =
                           MergeFactures(files[CombinedPath(y)], records)],
                      CombinedPath(y), {})

(* fetch_and_update_factures *)
fetch_and_update_factures(files, ds, lists, det) ==
    LET y == Yyyymm(ParseDayFirst(ds))
    IN IF ~ReadOk(files[UniquePath(y)], ";") THEN Raise(files, {})
       ELSE update_affaires_combinees_with_factures(
                files, AffaireIdsOf(files[UniquePath(y)]), y, lists, det)

-----------------------------------------------------------------------------
(* pipeline.py: ModuleoPipeline *)

(* result_key of run_step, per step of self.steps *)
ResultKey(k) ==
    CASE k = 1 -> "raw_csv"
      [] k = 2 -> "enriched_csv"
      [] k = 3 -> "unique_csv"
      [] k = 4 -> "temps_passes_par_affaire"
      [] k = 5 -> "calcul_prixventecollaborateur"
      [] k = 6 -> "sauvegarde_details_affaires"
      [] k = 7 -> "fusion_details_&_prix"
      [] k = 8 -> "integration_des_devis"
      [] OTHER -> "final_csv"

(* A run_step that stores what safe_execute returned whether or not the    *)
(* step succeeded                                                          *)
run_step_store_always(k, out) ==
    /\ started' = Append(started, k)
    /\ okSteps' = IF out.ok THEN okSteps \cup {k} ELSE okSteps
    /\ results' = (ResultKey(k) :> out.path) @@ results

(* run_step: safe_execute turns an exception of the callable into          *)
(* (False, None); on success the result is stored under the step's key     *)
run_step(k, out) ==
    /\ started' = Append(started, k)
    /\ okSteps' = IF out.ok THEN okSteps \cup {k} ELSE okSteps
    /\ results' = IF out.ok THEN (ResultKey(k) :> out.path) @@ results ELSE results

(* A loop that logs a failed step and goes on with the next one *)
run_pipeline_no_halt(k, success) ==
    IF k = NSteps
    THEN pc' = "done" /\ ret' = (IF success THEN "True" ELSE "False") /\ idx' = idx
    ELSE pc' = pc /\ ret' = ret /\ idx' = k + 1

(* A loop that halts on a failed step but forgets the outcome of the last  *)
(* step                                                                    *)
run_pipeline_last_unchecked(k, success) ==
    IF k = NSteps THEN pc' = "done" /\ ret' = "True" /\ idx' = idx
    ELSE IF ~success THEN pc' = "done" /\ ret' = "False" /\ idx' = idx
    ELSE pc' = pc /\ ret' = ret /\ idx' = k + 1

(* The for loop of run_pipeline around one step: a failed step returns     *)
(* False at once; after the last step the pipeline returns True            *)
run_pipeline(k, success) ==
    IF ~success THEN pc' = "done" /\ ret' = "False" /\ idx' = idx
    ELSE IF k = NSteps THEN pc' = "done" /\ ret' = "True" /\ idx' = idx
    ELSE pc' = pc /\ ret' = ret /\ idx' = k + 1

(* One iteration of the loop: the step's callable has run with outcome    *)
(* out.  lists and det are the answers it got (per-case calls, batched     *)
(* calls); they are kept in lastIO for the steps the specification watches *)
Iterate(k, out, lists, det, watch) ==
    /\ fs' = out.fs
    /\ remoteErr' = remoteErr \cup
            {[step |-> k, call |-> e.call, status |-> e.status] : e \in out.err}
    /\ lastIO' = IF out.ok /\ k \in watch
                 THEN [step |-> k, lists |-> lists, det |-> det]
                 ELSE [step |-> k, lists |-> <<>>, det |-> <<>>]
    /\ run_step(k, out)
    /\ run_pipeline(k, out.ok)
    /\ UNCHANGED <<http, batch, lookup, dash, ui, other>>

At(k) == pc = "running" /\ idx = k

(* No lookup made, nothing asked of the finished pipeline, no application  *)
(* session, no second run                                                  *)
NoLookup == [phase |-> "idle"]
NoDash == [final |-> "unasked", prepared |-> "uncalled", copy |-> AbsentFile]
NoUi == [phase |-> "absent"]
NoOther == [pc |-> "absent"]

(* No GET under way in the session; no batch fetch under way *)
NoRequest == [phase |-> "idle", attempts |-> 0, status |-> 0]

NoBatch == [phase |-> "idle", ids |-> <<>>, c |-> 1, sent |-> <<>>, got |-> <<>>, out |-> <<>>]

Init ==
    /\ pc = "idle"
    /\ idx = 1
    /\ ret = "none"
    /\ results = <<>>
    /\ fs = [p \in Paths |-> AbsentFile]
    /\ started = <<>>
    /\ okSteps = {}
    /\ remoteErr = {}
    /\ lastIO = [step |-> 0, lists |-> <<>>, det |-> <<>>]
    /\ http = NoRequest
    /\ batch = NoBatch
    /\ lookup = NoLookup
    /\ dash = NoDash
    /\ ui = NoUi
    /\ other = NoOther

(* pipeline.run_pipeline() is called *)
Start ==
    /\ pc = "idle"
    /\ pc' = "running"
    /\ UNCHANGED <<idx, ret, results, fs, started, okSteps, remoteErr, lastIO,
                 http, batch, lookup, dash, ui, other>>

(* Step 1, "Import des temps passes" *)
StepImport(D) ==
    /\ At(1)
    /\ \E r \in Resp(D.raw, D.errs) :
          Iterate(1, fetch_raw_tempspasses(fs, date_start, r), <<>>, <<r>>, D.watch)

(* Step 2, "Enrichissement avec affaires": _step_enrich_affaires *)
StepEnrich(D) ==
    /\ At(2)
    /\ LET has == "raw_csv" \in DOMAIN results
           n == IF has THEN EnrichRequests(fs, results["raw_csv"]) ELSE 0
       IN \E resps \in [1..n -> Resp(D.enr, D.errs)] :
             Iterate(2, IF has THEN enrich_with_affaire(fs, results["raw_csv"], resps)
                        ELSE Raise(fs, {}),
                     <<>>, resps, D.watch)

(* Step 3, "Export des affaires uniques": _step_export_unique *)
StepUnique(D) ==
    /\ At(3)
    /\ Iterate(3, IF "enriched_csv" \in DOMAIN results
                  THEN export_unique_affaires(fs, results["enriched_csv"])
                  ELSE Raise(fs, {}),
               <<>>, <<>>, D.watch)

(* Step 4, "Temps passes par affaire" *)
StepTemps(D) ==
    /\ At(4)
    /\ \E per \in [1..CaseRequests(fs, YM, ",") -> Resp(D.per4, D.errs)] :
          Iterate(4, fetch_and_export_affaires(fs, date_start, per), per, <<>>, D.watch)

(* Step 5, "Calcul PrixVenteCollaborateur" *)
StepPrix(D) ==
    /\ At(5)
    /\ \E per \in [1..CaseRequests(fs, YM, ",") -> Resp(D.per5, D.errs)] :
          LET a == fetch_and_export_affaires(fs, date_start, per)
              n == IF a.ok THEN CalcRequests(a.fs, YM) ELSE 0
          IN \E det \in [1..n -> Resp(D.det, D.errs)] :
                Iterate(5, calculate_prix_for_period(fs, date_start, date_end, per, det),
                        per, det, D.watch)

(* Step 6, "Sauvegarde details affaires" *)
StepDetails(D) ==
    /\ At(6)
    /\ \E resps \in [1..DetailRequests(fs, YM) -> Resp(D.aff6, D.errs)] :
          Iterate(6, fetch_and_save_details(fs, date_start, date_end, resps),
                  <<>>, resps, D.watch)

(* Step 7, "Fusion details & prix" *)
StepMerge(D) ==
    /\ At(7)
    /\ \E resps \in [1..DetailRequests(fs, YM) -> Resp(D.aff7, D.errs)] :
          Iterate(7, fetch_and_merge_details(fs, date_start, date_end, resps),
                  <<>>, resps, D.watch)

(* Step 8, "Integration des devis" *)
StepDevis(D) ==
    /\ At(8)
    /\ \E lists \in [1..CaseRequests(fs, YM, ";") -> Resp(D.dl, D.lerrs)] :
          LET fetched == [i \in 1..Len(lists) |-> fetch_affaire_devis(lists[i])]
          IN \E det \in [1..MultiRequests(fetched) -> Resp(D.dd, D.errs)] :
                Iterate(8, fetch_and_update_devis(fs, date_start, lists, det),
                        lists, det, D.watch)

(* Step 9, "Integration des factures" *)
StepFactures(D) ==
    /\ At(9)
    /\ \E lists \in [1..CaseRequests(fs, YM, ";") -> Resp(D.fl, D.lerrs)] :
          LET fetched == [i \in 1..Len(lists) |-> fetch_affaire_facture_ids(lists[i])]
          IN \E det \in [1..MultiRequests(fetched) -> Resp(D.fd, D.errs)] :
                Iterate(9, fetch_and_update_factures(fs, date_start, lists, det),
                        lists, det, D.watch)

NextOf(D) ==
    \/ Start
    \/ StepImport(D)
    \/ StepEnrich(D)
    \/ StepUnique(D)
    \/ StepTemps(D)
    \/ StepPrix(D)
    \/ StepDetails(D)
    \/ StepMerge(D)
    \/ StepDevis(D)
    \/ StepFactures(D)

-----------------------------------------------------------------------------
(* What the remote API answers.  Each specification runs the nine steps   *)
(* against one bounded set of answers per step: errs and lerrs are the     *)
(* error statuses a batched / whole-period GET and a per-case list GET may *)
(* end in, the other fields the 200 bodies of the GETs of each step, and   *)
(* watch the steps whose answers lastIO keeps.                             *)

(* GET /cogeo/tempspasse: the pointages 1..MaxEntry of the period *)
AllEntries == [i \in 1..MaxEntry |-> i]

(* GET /cogeo/tempspasse/multi of the enrichment: a record names the case  *)
(* of a pointage.  The pointages belong to the cases 42 and 43 in turn     *)
CaseOf(e) == IF e % 2 = 1 THEN 42 ELSE 43
OwnEnrich == [e \in 1..MaxEntry |-> [idTempsPasse |-> e, idAffaire |-> CaseOf(e)]]

(* GET /cogeo/affaire/{id}/tempspasses: pointage ids *)
OnePointage == {<<e>> : e \in EntryIds}

(* GET /cogeo/tempspasse/multi of the price computation *)
PrixRec(e, dt) == [idTempsPasse |-> e, PrixVenteCollaborateur |-> 100, Date |-> dt]
InPeriodPrix == [e \in 1..MaxEntry |-> PrixRec(e, Iso(7, 15, 0))]

(* GET /cogeo/affaire/multi *)
AffRecs(Cases, Etats) == {[idAffaire |-> a, Etat |-> e] : a \in Cases, e \in Etats}
BothCases == <<[idAffaire |-> 42, Etat |-> 1], [idAffaire |-> 43, Etat |-> 1]>>

(* GET /cogeo/devis/multi and /cogeo/facture/multi *)
OneDevis == <<[idDevis |-> 1, Etat |-> 0, MontantTotalHT |-> 500]>>
OneFacture == <<[idFacture |-> 1, MontantTotalHT |-> 750, DateEmission |-> Iso(7, 15, 0)]>>

(* Orchestration: every GET may fail, a case may have no pointage, no      *)
(* detail record, no quote and no invoice                                  *)
Base ==
    [errs |-> {503}, lerrs |-> ErrStatus, watch |-> {},
     raw |-> {<<>>, AllEntries},
     enr |-> {OwnEnrich},
     per4 |-> {<<>>} \cup OnePointage,
     per5 |-> {<<>>} \cup OnePointage,
     det |-> {<<>>, InPeriodPrix},
     aff6 |-> {BothCases},
     aff7 |-> {<<>>, BothCases},
     dl |-> {<<>>, <<1>>},
     dd |-> {<<>>, OneDevis},
     fl |-> {<<>>, <<1>>},
     fd |-> {<<>>, OneFacture}]

Next == NextOf(Base)

Spec == Init /\ [][Next]_vars

(* Case universe and detail merge: the enrichment may attach a pointage to *)
(* an excluded case or to none, and the case-detail call of the merge step *)
(* may answer with any records, repeated ones and excluded cases included  *)
EnrichBodies(Cases) ==
    {[e \in 1..MaxEntry |-> [idTempsPasse |-> e, idAffaire |-> f[e]]] :
        f \in [1..MaxEntry -> Cases]}

Merge ==
    [errs |-> {}, lerrs |-> {}, watch |-> {7},
     raw |-> {AllEntries},
     enr |-> EnrichBodies({42, 29966, NONE}),
     per4 |-> {<<1>>},
     per5 |-> {<<1>>},
     det |-> {InPeriodPrix},
     aff6 |-> {BothCases},
     aff7 |-> BSeq(AffRecs({42, 29966}, {1}), MaxResp),
     dl |-> {<<>>, <<1>>},
     dd |-> {OneDevis},
     fl |-> {<<>>, <<1>>},
     fd |-> {OneFacture}]

NextMerge == NextOf(Merge)

SpecMerge == Init /\ [][NextMerge]_vars

(* Quote integration: the cases 42 and 43 are both in the combined file;   *)
(* each lists no quote, quote 1 or quote 2; a quote record spells its      *)
(* state key 'etat' or 'Etat' and is ordered (0) or not (1)                *)
QuoteAmount(i) == 100 * i

QuoteRecs ==
    {[idDevis |-> i, etat |-> e, MontantTotalHT |-> QuoteAmount(i)] :
        i \in {1, 2}, e \in {0, 1}}
    \cup {[idDevis |-> i, Etat |-> e, MontantTotalHT |-> QuoteAmount(i)] :
        i \in {1, 2}, e \in {0, 1}}

Quotes ==
    [errs |-> {}, lerrs |-> {}, watch |-> {8},
     raw |-> {AllEntries},
     enr |-> {OwnEnrich},
     per4 |-> {<<1>>},
     per5 |-> {<<1>>},
     det |-> {InPeriodPrix},
     aff6 |-> {BothCases},
     aff7 |-> {BothCases},
     dl |-> {<<>>, <<1>>, <<2>>},
     dd |-> BSeq(QuoteRecs, MaxResp),
     fl |-> {<<>>, <<1>>},
     fd |-> {OneFacture}]

NextDevis == NextOf(Quotes)

SpecDevis == Init /\ [][NextDevis]_vars

(* Case details: a record of case 42 is in production (1) or closed (2),   *)
(* without closure date or closed on 31/07 or 01/08 (ISO), or on 12/07,    *)
(* 01/08 or 13/08 (day-first), or with a closure date that is not a date   *)
ClosureDates ==
    {Iso(7, 31, 10), Iso(8, 1, 0), Dmy(12, 7), Dmy(1, 8), Dmy(13, 8), NotADate}

ClosureRecs ==
    {[idAffaire |-> 42, Etat |-> e] : e \in {1, 2}}
    \cup {[idAffaire |-> 42, Etat |-> e, DateCloture |-> d] :
            e \in {1, 2}, d \in ClosureDates}

Closures ==
    [errs |-> {}, lerrs |-> {}, watch |-> {6},
     raw |-> {AllEntries},
     enr |-> {OwnEnrich},
     per4 |-> {<<1>>},
     per5 |-> {<<1>>},
     det |-> {InPeriodPrix},
     aff6 |-> BSeq(ClosureRecs, MaxResp),
     aff7 |-> {<<>>, BothCases},
     dl |-> {<<>>, <<1>>},
     dd |-> {OneDevis},
     fl |-> {<<>>, <<1>>},
     fd |-> {OneFacture}]

NextEtat == NextOf(Closures)

SpecEtat == Init /\ [][NextEtat]_vars

-----------------------------------------------------------------------------
(* Properties *)

Unique == fs[UniquePath(YM)]
Details == fs[DetailsPath(YM)]
Combined == fs[CombinedPath(YM)]

(* The step the loop ran last returned / raised *)
LastOk(k) == lastIO.step = k /\ k \in okSteps

(* C1: in run_pipeline, once a step has failed (its callable raised) no    *)
(* later step of the list is started and run_pipeline returns False: a     *)
(* failed step is always the last one started, the pipeline is then done   *)
(* with result False, and from then on no step is started any more.        *)
SomeStepFailed == \E i \in 1..Len(started) : started[i] \notin okSteps

C1_HaltOnFailure ==
    /\ [](\A i \in 1..Len(started) :
            started[i] \notin okSteps
                => i = Len(started) /\ pc = "done" /\ ret = "False")
    /\ [][SomeStepFailed => started' = started /\ ret' = "False"]_vars

(* Step 5 raised (no price record at all): the run stopped there *)
C1_Witness ==
    /\ pc = "done" /\ ret = "False"
    /\ started = <<1, 2, 3, 4, 5>>
    /\ okSteps = {1, 2, 3, 4}

(* C2: run_pipeline returns True if and only if every one of the nine      *)
(* declared steps returned without raising, and then each step was run     *)
(* exactly once, in declared order.                                        *)
C2_TrueIffAllStepsOk ==
    /\ (ret = "True") <=> (okSteps = 1..NSteps)
    /\ (ret = "True") => (started = [i \in 1..NSteps |-> i])
    /\ (pc = "done") => (ret \in {"True", "False"})

C2_Witness == pc = "done" /\ ret = "True" /\ Len(started) = NSteps

(* C3: after the detail-merge step and after each later quote and invoice  *)
(* integration, no case id occurs in more than one row of the combined     *)
(* file, whatever the remote API answers (repeated records included).      *)
NoDuplicateCase(f) ==
    \A i, j \in 1..Len(f.rows) : f.rows[i].idAffaire = f.rows[j].idAffaire => i = j

C3_UniqueCaseRows == 7 \in okSteps => NoDuplicateCase(Combined)

(* The final file of a successful run holds case 42 twice *)
C3_DuplicateInFinal ==
    /\ ret = "True"
    /\ Cardinality({i \in 1..Len(Combined.rows) : Combined.rows[i].idAffaire = 42}) = 2

(* C4: none of the case ids 29966, 35659, 32207 is ever in the unique-case *)
(* file or a row of the combined file, even when the case-detail call      *)
(* answers with a record of one of them.                                   *)
HasExcluded(rows) == \E i \in 1..Len(rows) : rows[i].idAffaire \in ExcludedIds

C4_ExcludedNeverListed == ~HasExcluded(Unique.rows) /\ ~HasExcluded(Combined.rows)

(* A pointage was attached to an excluded case, the case-detail call of    *)
(* the merge step answered with a record of it, and the merge wrote rows   *)
C4_Witness ==
    /\ LastOk(7)
    /\ HasExcluded(fs[EnrichedPath(YM)].rows)
    /\ HasExcluded(ConcatBodies(lastIO.det))
    /\ Combined.rows # <<>>

(* What the quote integration was answered: the quote records of the       *)
(* batched call, and the ids the k-th case of unique_affaires listed       *)
QuoteBody(io) == ConcatBodies(io.det)

QuotesListed(io, k) == Range(io.lists[k].body)

(* The state code of a quote record, under either spelling of its key *)
StateCode(rec) == IF "etat" \in DOMAIN rec THEN rec.etat ELSE Get(rec, "Etat")

(* The ordered quotes of the k-th case, and the sum of their amounts *)
OrderedQuotes(io, k) ==
    LET Mine(rec) == StateCode(rec) = 0 /\ rec.idDevis \in QuotesListed(io, k)
    IN SelectSeq(QuoteBody(io), Mine)

OrderedTotal(io, k) ==
    LET q == OrderedQuotes(io, k)
    IN SumSeq([i \in 1..Len(q) |-> q[i].MontantTotalHT])

(* Every quote is listed under one case at most and described by one       *)
(* record at most                                                          *)
EachQuoteOnce(io) ==
    /\ \A k1, k2 \in 1..Len(io.lists) :
            k1 # k2 => QuotesListed(io, k1) \cap QuotesListed(io, k2) = {}
    /\ \A i, j \in 1..Len(QuoteBody(io)) :
            QuoteBody(io)[i].idDevis = QuoteBody(io)[j].idDevis => i = j

(* Position of case a in unique_affaires *)
CaseIndex(a) == CHOOSE k \in 1..Len(Unique.rows) : Unique.rows[k].idAffaire = a

(* C5: after quote integration the column MontantTotalHT of every case is  *)
(* the sum of the amounts of exactly the quotes of the case whose state    *)
(* code is 0, whichever spelling ('etat' or 'Etat') the record uses for    *)
(* the state key.                                                          *)
C5_OrderedQuoteTotal ==
    (LastOk(8) /\ EachQuoteOnce(lastIO))
        => \A i \in 1..Len(Combined.rows) :
              Combined.rows[i].MontantTotalHT
                  = OrderedTotal(lastIO, CaseIndex(Combined.rows[i].idAffaire))

(* The only quote of case 42 is ordered, spelled 'etat': 0, and the case   *)
(* is written with a total of 0                                            *)
C5_LowercaseKeyLost ==
    /\ LastOk(8)
    /\ QuoteBody(lastIO) = <<[idDevis |-> 1, etat |-> 0, MontantTotalHT |-> QuoteAmount(1)]>>
    /\ QuotesListed(lastIO, 1) = {1}
    /\ Combined.rows[1].idAffaire = 42
    /\ Combined.rows[1].MontantTotalHT = 0

(* C6: the quote integration keeps every row of the combined file, and a   *)
(* case without any ordered quote gets the quote total 0 (never null):     *)
(* both when no case has a quote and when only some have one.              *)
C6_NoQuoteRowKept ==
    [][(At(8) /\ 8 \in okSteps')
        => LET old == Combined.rows
               new == fs'[CombinedPath(YM)].rows
           IN /\ Len(new) = Len(old)
              /\ \A i \in 1..Len(old) :
                    /\ new[i].idAffaire = old[i].idAffaire
                    /\ OrderedQuotes(lastIO', CaseIndex(old[i].idAffaire)) = <<>>
                          => new[i].MontantTotalHT = 0]_vars

(* Case 42 has an ordered quote and case 43 has none: 43 is kept with 0 *)
C6_Witness ==
    /\ LastOk(8)
    /\ Len(Combined.rows) = 2
    /\ Combined.rows[1].MontantTotalHT > 0
    /\ OrderedQuotes(lastIO, 2) = <<>>
    /\ Combined.rows[2].idAffaire = 43
    /\ Combined.rows[2].MontantTotalHT = 0

(* C7: after a successful run every case of unique_affaires is a row of    *)
(* the final combined file, also a case whose per-case time-entry fetch    *)
(* returned no entry or failed.                                            *)
InCombined(a) == \E j \in 1..Len(Combined.rows) : Combined.rows[j].idAffaire = a

C7_EveryCaseInFinal ==
    ret = "True" => \A i \in 1..Len(Unique.rows) : InCombined(Unique.rows[i].idAffaire)

(* The run succeeded, case 43 is a unique case and is not in the final file *)
C7_CaseDropped ==
    /\ ret = "True"
    /\ \E i \in 1..Len(Unique.rows) : Unique.rows[i].idAffaire = 43
    /\ ~InCombined(43)
    /\ InCombined(42)

(* C8: a case the API reports with state code 2 and a closure date on a    *)
(* calendar day strictly after the period end is written to the            *)
(* case-detail file with the label "Production".                           *)
ClosedAfterPeriod(rec) ==
    /\ Get(rec, "Etat") = 2
    /\ "DateCloture" \in DOMAIN rec
    /\ rec.DateCloture.m * 100 + rec.DateCloture.d > date_end.m * 100 + date_end.d

C8_ClosedLaterInProduction ==
    LastOk(6)
        => LET recs == ConcatBodies(lastIO.det)
           IN \A i \in 1..Len(recs) :
                 ClosedAfterPeriod(recs[i]) => Details.rows[i].Etat = "Production"

(* Closed on "01/08/2025", the day after the period end, and written as    *)
(* "Cloturee"                                                              *)
C8_DayFirstDateMisread ==
    /\ LastOk(6)
    /\ ConcatBodies(lastIO.det) = <<[idAffaire |-> 42, Etat |-> 2, DateCloture |-> Dmy(1, 8)]>>
    /\ Details.rows[1].Etat = "Cloturee"

(* C9: a GET of an extraction step that ends in a non-tolerated error      *)
(* (here a 503 after the retries) fails the step, and run_pipeline returns *)
(* False; no step completes with the affected case left out.               *)
C9_RemoteErrorFailsStep ==
    \A e \in remoteErr : e.status = 503 => e.step \notin okSteps /\ ret = "False"

(* A per-case time-entry GET of step 4 ended in 503 and the run succeeded *)
C9_ErrorSwallowed ==
    /\ ret = "True"
    /\ [step |-> 4, call |-> "get", status |-> 503] \in remoteErr

(* C10: a 404 answer to a per-case list call (the quotes of a case, the    *)
(* invoices of a case) is an empty id list: no step fails on it.           *)
C10_ListNotFoundIsEmpty ==
    \A e \in remoteErr : ~(e.call = "list" /\ e.status = 404)

(* The quote integration stopped on the 404 of a list call *)
C10_QuoteListNotFoundRaises ==
    /\ pc = "done" /\ ret = "False"
    /\ Len(started) = 8
    /\ [step |-> 8, call |-> "list", status |-> 404] \in remoteErr

-----------------------------------------------------------------------------
(* The HTTP session: SESSION = requests.Session() with                     *)
(* HTTPAdapter(max_retries=Retry(total=5, status_forcelist=[...])) mounted.*)
(* SESSION.get is called without a timeout argument.                       *)

(* Retry(total=5): retries allowed after the first request *)
total == 5

status_forcelist == {429, 500, 502, 503, 504}

(* The server takes the request and never answers *)
NoAnswer == 0

(* What the server may answer to one request *)
ServerAnswers == {200, 404, 429, 500, 501, 503, NoAnswer}

(* Retry.is_retry: the status codes that make the adapter send again *)
is_retry(status_code) == status_code \in status_forcelist

(* Retry.is_exhausted once the request in flight is counted: the number of *)
(* retries made so far is one less than the number of requests sent        *)
is_exhausted(attempts) == attempts - 1 >= total

(* What the adapter does with the answer s to the attempts-th request:     *)
(* without a timeout the read of an unanswered request blocks for ever; a  *)
(* status of the force list is retried until the retries are spent, then   *)
(* RetryError is raised; any other response is handed to the caller        *)
AdapterSend(attempts, s) ==
    [phase |-> IF s = NoAnswer THEN "blocked"
               ELSE IF ~is_retry(s) THEN "returned"
               ELSE IF is_exhausted(attempts) THEN "raised"
               ELSE "retry",
     attempts |-> attempts,
     status |-> s]

(* _fetch_tempspasses calls SESSION.get: the first request is sent *)
SessionGet ==
    /\ At(1)
    /\ http.phase = "idle"
    /\ http' = [phase |-> "sending", attempts |-> 1, status |-> 0]
    /\ UNCHANGED <<pc, idx, ret, results, fs, started, okSteps, remoteErr, lastIO,
                 batch, lookup, dash, ui, other>>

(* The server answers (or not) the request in flight *)
SessionAnswer ==
    /\ http.phase = "sending"
    /\ \E s \in ServerAnswers : http' = AdapterSend(http.attempts, s)
    /\ UNCHANGED <<pc, idx, ret, results, fs, started, okSteps, remoteErr, lastIO,
                 batch, lookup, dash, ui, other>>

(* Retry.sleep() is over: the request is sent again *)
SessionRetry ==
    /\ http.phase = "retry"
    /\ http' = [phase |-> "sending", attempts |-> http.attempts + 1, status |-> http.status]
    /\ UNCHANGED <<pc, idx, ret, results, fs, started, okSteps, remoteErr, lastIO,
                 batch, lookup, dash, ui, other>>

(* Step 1 once SESSION.get has returned a response or raised RetryError *)
StepImportHttp(D) ==
    /\ At(1)
    /\ http.phase \in {"returned", "raised"}
    /\ \E r \in (IF http.status = 200 THEN Resp(D.raw, {}) ELSE Resp({}, {http.status})) :
          Iterate(1, fetch_raw_tempspasses(fs, date_start, r), <<>>, <<r>>, D.watch)

NextSession ==
    \/ Start
    \/ SessionGet
    \/ SessionAnswer
    \/ SessionRetry
    \/ StepImportHttp(Base)
    \/ StepEnrich(Base)
    \/ StepUnique(Base)
    \/ StepTemps(Base)
    \/ StepPrix(Base)
    \/ StepDetails(Base)
    \/ StepMerge(Base)
    \/ StepDevis(Base)
    \/ StepFactures(Base)

SpecSession == Init /\ [][NextSession]_vars

(* The interpreter keeps running the call and the server keeps answering   *)
(* or not answering: every step that can be taken eventually is            *)
SpecSessionFair == SpecSession /\ WF_vars(NextSession)

(* C11: every GET is attempted at most 6 times; an answer with status 429  *)
(* or any 5xx status is retried until the 5 retries are used up, and then  *)
(* the call fails; an answer with any other 4xx status is never retried    *)
(* and fails the call at once.                                             *)
Answered == http.phase \in {"retry", "returned", "raised"}

C11_RetryBudget ==
    /\ http.attempts <= total + 1
    /\ (Answered /\ (http.status = 429 \/ http.status \in 500..599))
          => \/ http.phase = "retry" /\ http.attempts <= total
             \/ http.phase = "raised" /\ http.attempts = total + 1
    /\ (Answered /\ http.status \in 400..499 /\ http.status # 429)
          => /\ http.phase = "returned"
             /\ started # <<>> => 1 \notin okSteps

(* The first request is answered 501: the response is handed to the caller *)
(* without any retry                                                       *)
C11_NotImplementedNotRetried ==
    http = [phase |-> "returned", attempts |-> 1, status |-> 501]

(* C12: every run_pipeline call terminates with True or False, even when   *)
(* a remote call never answers (the call times out, is retried within the  *)
(* retry budget, and then the step and the pipeline fail).                 *)
C12_RunTerminates == <>(pc = "done" /\ ret \in {"True", "False"})

(* The GET of step 1 got no answer: the run is inside step 1 for ever *)
C12_BlockedForEver ==
    /\ http.phase = "blocked"
    /\ pc = "running" /\ idx = 1 /\ started = <<>>
    /\ ~ENABLED NextSession

(* C13: within one run, an intermediate artifact that a step has written   *)
(* is never written again by a later step; the only file later steps       *)
(* rewrite is the combined file, by the quote and invoice integrations.    *)
C13_ArtifactsWrittenOnce ==
    [][\A p \in Paths :
          (fs[p].st = "ok" /\ fs'[p] # fs[p])
              => p = CombinedPath(YM) /\ idx \in {8, 9}]_vars

(* Step 6 wrote two detail rows; step 7 fetched the details again, got an  *)
(* empty answer and wrote the detail file anew                             *)
C13_DetailsRewritten ==
    /\ started = <<1, 2, 3, 4, 5, 6, 7>>
    /\ 6 \in okSteps
    /\ Details.st = "ok" /\ Details.rows = <<>>

(* C14: the quote integration run a second time on the combined file it    *)
(* has just written, with the same remote answers, succeeds and leaves     *)
(* every file as the first run left it: same rows, same columns, same      *)
(* totals.                                                                 *)
C14_DevisIdempotent ==
    LastOk(8) =>
        LET again == fetch_and_update_devis(fs, date_start, lastIO.lists, lastIO.det)
        IN again.ok /\ again.fs = fs

(* The first run has written a non-zero total for a case *)
C14_Witness ==
    /\ LastOk(8)
    /\ \E i \in 1..Len(Combined.rows) : Combined.rows[i].MontantTotalHT > 0
    /\ \E i \in 1..Len(Combined.rows) : Combined.rows[i].MontantTotalHT = 0

-----------------------------------------------------------------------------
(* The end-to-end scenario of the period 01/07/2025 - 31/07/2025: one      *)
(* pointage of case 42 with sale price 100, an ordered quote of 500 and a  *)
(* cancelled quote of 300, one invoice of 750 issued on 15/07/2025.  What  *)
(* the scenario leaves open is drawn from the forms the code reads: the    *)
(* day and hour of the pointage inside the period, the state of the case,  *)
(* the spelling of the quote state key ('etat' or 'Etat'), the order of    *)
(* the two quote records and the format of the invoice date.               *)
ScenarioEntryDates == {Iso(7, 1, 0), Iso(7, 15, 9), Iso(7, 31, 0), Iso(7, 31, 10), Dmy(31, 7)}

ScenarioCase == {<<[idAffaire |-> 42, Etat |-> e]>> : e \in DOMAIN ETAT_MAPPING}

OrderedQuote == {[idDevis |-> 1, etat |-> 0, MontantTotalHT |-> 500],
                 [idDevis |-> 1, Etat |-> 0, MontantTotalHT |-> 500]}

CancelledQuote == {[idDevis |-> 2, etat |-> 6, MontantTotalHT |-> 300],
                   [idDevis |-> 2, Etat |-> 6, MontantTotalHT |-> 300]}

ScenarioQuotes ==
    {<<o, c>> : o \in OrderedQuote, c \in CancelledQuote}
    \cup {<<c, o>> : o \in OrderedQuote, c \in CancelledQuote}

ScenarioInvoice ==
    {<<[idFacture |-> 1, MontantTotalHT |-> 750, DateEmission |-> d]>> :
        d \in {Iso(7, 15, 0), Dmy(15, 7)}}

Scenario ==
    [errs |-> {}, lerrs |-> {}, watch |-> {5, 8},
     raw |-> {<<1>>},
     enr |-> {<<[idTempsPasse |-> 1, idAffaire |-> 42]>>},
     per4 |-> {<<1>>},
     per5 |-> {<<1>>},
     det |-> {<<PrixRec(1, d)>> : d \in ScenarioEntryDates},
     aff6 |-> ScenarioCase,
     aff7 |-> ScenarioCase,
     dl |-> {<<1, 2>>},
     dd |-> ScenarioQuotes,
     fl |-> {<<1>>},
     fd |-> ScenarioInvoice]

NextScenario == NextOf(Scenario)

SpecScenario == Init /\ [][NextScenario]_vars

(* C15: the run of the scenario succeeds and the final combined file has   *)
(* exactly one row, for case 42, with quote total 500, invoice total 750,  *)
(* invoice date 15/07/2025 and sale-price sum 100.                         *)
C15_ScenarioRow ==
    pc = "done" =>
        /\ ret = "True"
        /\ Len(Combined.rows) = 1
        /\ Combined.rows[1].idAffaire = 42
        /\ Combined.rows[1].MontantTotalHT = 500
        /\ Combined.rows[1].MontantFacturesHT = 750
        /\ ParseIsoOrDmy(Combined.rows[1].DateEmission_Facture) = [m |-> 7, d |-> 15, h |-> 0]
        /\ Combined.rows[1].PrixVenteCollaborateur = 100

(* The run succeeded and the ordered quote, whose record spells its state  *)
(* 'etat': 0, is missing from the total of case 42                         *)
C15_OrderedQuoteLost ==
    /\ pc = "done" /\ ret = "True"
    /\ Len(Combined.rows) = 1
    /\ Combined.rows[1].MontantTotalHT = 0
    /\ Combined.rows[1].MontantFacturesHT = 750

(* The pointage is dated 31/07/2025 10:00: step 5 keeps no record and      *)
(* fails, the run returns False                                            *)
C15_EndDayEntryFailsRun ==
    /\ pc = "done" /\ ret = "False"
    /\ started = <<1, 2, 3, 4, 5>>
    /\ remoteErr = {}

-----------------------------------------------------------------------------
(* A batch fetcher (_fetch_tempspasses_multi, fetch_tempspasses_multi,     *)
(* fetch_affaires_multi, fetch_devis_multi, fetch_facture_multi) at work   *)
(* on a list of ids with chunk size c: one GET per chunk, in order; the    *)
(* records of every answer that is a JSON list are appended to out.        *)

\* longest id list and largest chunk size of the batch fetcher
MaxIds == 3
MaxChunk == 3

IdList(n) == [i \in 1..n |-> i]

(* What the server may answer to the GET of a chunk: a list with a record  *)
(* per id, a list with the first record only, an empty list, a JSON object *)
(* that is no list, or an error status                                     *)
ChunkAnswers(ids) ==
    {[status |-> 200, list |-> TRUE, body |-> [i \in 1..Len(ids) |-> [id |-> ids[i]]]],
     [status |-> 200, list |-> TRUE, body |-> <<[id |-> ids[1]]>>],
     [status |-> 200, list |-> TRUE, body |-> <<>>],
     [status |-> 200, list |-> FALSE, body |-> <<>>],
     [status |-> 503, list |-> FALSE, body |-> <<>>]}

InitChunk ==
    /\ pc = "idle"
    /\ idx = 1
    /\ ret = "none"
    /\ results = <<>>
    /\ fs = [p \in Paths |-> AbsentFile]
    /\ started = <<>>
    /\ okSteps = {}
    /\ remoteErr = {}
    /\ lastIO = [step |-> 0, lists |-> <<>>, det |-> <<>>]
    /\ http = NoRequest
    /\ batch \in {[phase |-> "loop", ids |-> IdList(n), c |-> c,
                   sent |-> <<>>, got |-> <<>>, out |-> <<>>] :
                    n \in 0..MaxIds, c \in 1..MaxChunk}
                 \cup {[phase |-> "loop", ids |-> IdList(250), c |-> chunk_size,
                        sent |-> <<>>, got |-> <<>>, out |-> <<>>]}
    /\ lookup = NoLookup
    /\ dash = NoDash
    /\ ui = NoUi
    /\ other = NoOther

(* SESSION.get(url, params={"ids": ",".join(map(str, batch))}) of the next *)
(* chunk                                                                   *)
BatchGet ==
    /\ batch.phase = "loop"
    /\ Len(batch.sent) < Len(Chunks(batch.ids, batch.c))
    /\ batch' = [batch EXCEPT !.phase = "get",
                              !.sent = Append(@, Chunks(batch.ids, batch.c)[Len(@) + 1])]
    /\ UNCHANGED <<pc, idx, ret, results, fs, started, okSteps, remoteErr, lastIO,
                 http, lookup, dash, ui, other>>

(* resp.raise_for_status(); data = resp.json();                            *)
(* if isinstance(data, list): out.extend(data)                             *)
BatchAnswer ==
    /\ batch.phase = "get"
    /\ \E r \in ChunkAnswers(batch.sent[Len(batch.sent)]) :
          batch' = [batch EXCEPT
                      !.phase = IF Raises(r) THEN "raised" ELSE "loop",
                      !.got = Append(@, r),
                      !.out = IF ~Raises(r) /\ r.list THEN @ \o r.body ELSE @]
    /\ UNCHANGED <<pc, idx, ret, results, fs, started, okSteps, remoteErr, lastIO,
                 http, lookup, dash, ui, other>>

(* return out *)
BatchReturn ==
    /\ batch.phase = "loop"
    /\ Len(batch.sent) = Len(Chunks(batch.ids, batch.c))
    /\ batch' = [batch EXCEPT !.phase = "returned"]
    /\ UNCHANGED <<pc, idx, ret, results, fs, started, okSteps, remoteErr, lastIO,
                 http, lookup, dash, ui, other>>

NextChunk == BatchGet \/ BatchAnswer \/ BatchReturn

SpecChunk == InitChunk /\ [][NextChunk]_vars

(* C16: when a batch fetch of n ids with chunk size c returns, it has      *)
(* issued ceil(n / c) requests, each for at least one and at most c ids,   *)
(* the requests taken in order hold every id of the list exactly once,     *)
(* and the list returned is the records of the list answers, each once,    *)
(* in the order of the requests.                                           *)
C16_ChunkedRequests ==
    batch.phase = "returned" =>
        /\ Len(batch.sent) = (Len(batch.ids) + batch.c - 1) \div batch.c
        /\ \A k \in 1..Len(batch.sent) :
              Len(batch.sent[k]) >= 1 /\ Len(batch.sent[k]) <= batch.c
        /\ Concat(batch.sent) = batch.ids
        /\ Len(batch.got) = Len(batch.sent)
        /\ batch.out = Concat([k \in 1..Len(batch.got) |->
                                  IF batch.got[k].list THEN batch.got[k].body ELSE <<>>])

(* 250 ids with chunk size 100: three requests, of 100, 100 and 50 ids,    *)
(* all answered in full                                                    *)
C16_Witness ==
    /\ batch.phase = "returned"
    /\ Len(batch.ids) = 250 /\ batch.c = 100
    /\ Len(batch.sent) = 3
    /\ Len(batch.sent[3]) = 50
    /\ Len(batch.out) = 250

-----------------------------------------------------------------------------
(* Price computation: the pointages are dated inside the period, on its    *)
(* last day at midnight or later in the day, or on the day after           *)
PrixDates == {Iso(7, 15, 0), Iso(7, 31, 0), Iso(7, 31, 10), Iso(8, 1, 0)}

PrixRecs == {PrixRec(e, dt) : e \in EntryIds, dt \in PrixDates}

Prices ==
    [errs |-> {}, lerrs |-> {}, watch |-> {5},
     raw |-> {AllEntries},
     enr |-> {OwnEnrich},
     per4 |-> {<<1>>},
     per5 |-> OnePointage,
     det |-> BSeq(PrixRecs, MaxResp),
     aff6 |-> {BothCases},
     aff7 |-> {BothCases},
     dl |-> {<<>>, <<1>>},
     dd |-> {OneDevis},
     fl |-> {<<>>, <<1>>},
     fd |-> {OneFacture}]

NextPrix == NextOf(Prices)

SpecPrix == Init /\ [][NextPrix]_vars

(* The detail records of pointage e dated on or before the last day of the *)
(* period, whatever the time of day                                        *)
UpToEndDay(io, e) ==
    LET Of(rec) == /\ rec.idTempsPasse = e
                   /\ ~DayAfter(ParseIsoOrDmy(rec.Date), ParseDayFirst(date_end))
    IN SelectSeq(ConcatBodies(io.det), Of)

(* Sum of the prices of the pointages of case a in tempspasses_affaires    *)
(* that are dated on or before the last day of the period                  *)
SalePriceUpToEndDay(io, a) ==
    LET Of(row) == row.idAffaire = a
        entries == SelectSeq(fs[TempsPath(YM)].rows, Of)
        Price(e) == LET recs == UpToEndDay(io, e)
                    IN SumSeq([i \in 1..Len(recs) |-> recs[i].PrixVenteCollaborateur])
    IN SumSeq([i \in 1..Len(entries) |-> Price(entries[i].idTempsPasse)])

C18_EveryEntryAccounted ==
    3 \in okSteps =>
        LET enriched == fs[EnrichedPath(YM)].rows
            missing == fs[MissingPath(YM)]
            Listed(e) == \E j \in 1..Len(missing.rows) : missing.rows[j].idTempsPasse = e
        IN /\ EntryIdsOf(fs[EnrichedPath(YM)]) = EntryIdsOf(fs[RawPath(YM)])
           /\ missing.st = "ok"
           /\ \A i \in 1..Len(enriched) :
                 Listed(enriched[i].idTempsPasse) <=> enriched[i].idAffaire = NONE
           /\ \A j \in 1..Len(missing.rows) : missing.rows[j].idAffaire = NONE

(* One pointage was resolved to a case and the other was not *)
C18_Witness ==
    /\ 3 \in okSteps
    /\ \E i \in 1..Len(fs[EnrichedPath(YM)].rows) :
          fs[EnrichedPath(YM)].rows[i].idAffaire = NONE
    /\ \E i \in 1..Len(fs[EnrichedPath(YM)].rows) :
          fs[EnrichedPath(YM)].rows[i].idAffaire = 42
    /\ Len(fs[MissingPath(YM)].rows) = 1

-----------------------------------------------------------------------------
(* Quote and invoice integration: a case lists no or two quotes and        *)
(* invoices; the batched calls return up to MaxResp records; an invoice    *)
(* carries its issue date as an ISO string or as a day-first string        *)
SomeQuoteRecs ==
    {[idDevis |-> 1, Etat |-> 0, MontantTotalHT |-> 500],
     [idDevis |-> 2, Etat |-> 0, MontantTotalHT |-> 300],
     [idDevis |-> 2, Etat |-> 6, MontantTotalHT |-> 300]}

InvoiceRecs ==
    {[idFacture |-> 1, MontantTotalHT |-> 750, DateEmission |-> d] :
        d \in {Iso(7, 15, 0), Dmy(15, 7)}}
    \cup {[idFacture |-> 2, MontantTotalHT |-> 250, DateEmission |-> d] :
        d \in {Iso(8, 2, 0), Dmy(2, 8)}}

Invoices ==
    [errs |-> {}, lerrs |-> {}, watch |-> {8, 9},
     raw |-> {AllEntries},
     enr |-> {OwnEnrich},
     per4 |-> {<<1>>},
     per5 |-> {<<1>>},
     det |-> {InPeriodPrix},
     aff6 |-> {BothCases},
     aff7 |-> {BothCases},
     dl |-> {<<>>, <<1, 2>>},
     dd |-> BSeq(SomeQuoteRecs, MaxResp),
     fl |-> {<<>>, <<1, 2>>},
     fd |-> BSeq(InvoiceRecs, MaxResp)]

NextFactures == NextOf(Invoices)

SpecFactures == Init /\ [][NextFactures]_vars

(* The invoices of the k-th case: the records of the batched call whose id *)
(* the case listed                                                         *)
InvoicesOf(io, k) ==
    LET Mine(rec) == rec.idFacture \in Range(io.lists[k].body)
    IN SelectSeq(ConcatBodies(io.det), Mine)

(* Every invoice is listed under one case at most and described by one     *)
(* record at most                                                          *)
EachInvoiceOnce(io) ==
    /\ \A k1, k2 \in 1..Len(io.lists) :
            k1 # k2 => Range(io.lists[k1].body) \cap Range(io.lists[k2].body) = {}
    /\ \A i, j \in 1..Len(ConcatBodies(io.det)) :
            ConcatBodies(io.det)[i].idFacture = ConcatBodies(io.det)[j].idFacture => i = j

InvoiceTotal(io, k) ==
    LET inv == InvoicesOf(io, k)
    IN SumSeq([i \in 1..Len(inv) |-> inv[i].MontantTotalHT])

(* The issue dates of the invoices of the k-th case, as dates *)
IssueDates(io, k) ==
    {ParseIsoOrDmy(InvoicesOf(io, k)[i].DateEmission) : i \in 1..Len(InvoicesOf(io, k))}

(* C19: after the invoice integration the invoice total of every case is   *)
(* the sum of the amounts of the case's invoices and its invoice date is   *)
(* the latest of their issue dates; a case without invoice keeps its row,  *)
(* with total 0.0 and an empty date.                                       *)
C19_InvoiceTotalAndLatestDate ==
    (LastOk(9) /\ EachInvoiceOnce(lastIO))
        => /\ \A k \in 1..Len(Unique.rows) : InCombined(Unique.rows[k].idAffaire)
           /\ \A i \in 1..Len(Combined.rows) :
                LET k == CaseIndex(Combined.rows[i].idAffaire)
                    written == Combined.rows[i].DateEmission_Facture
                IN /\ Combined.rows[i].MontantFacturesHT = InvoiceTotal(lastIO, k)
                   /\ IF InvoicesOf(lastIO, k) = <<>>
                      THEN written = NoDateStr
                      ELSE /\ ParseIsoOrDmy(written) \in IssueDates(lastIO, k)
                           /\ \A d \in IssueDates(lastIO, k) :
                                 ~DtAfter(d, ParseIsoOrDmy(written))

(* A case has an invoice of 15/07/2025 and one of 02/08/2025, both dates   *)
(* written day first, and its row carries 15/07/2025                       *)
C19_EarlierDateWritten ==
    /\ LastOk(9) /\ EachInvoiceOnce(lastIO)
    /\ \E i \in 1..Len(Combined.rows) :
          /\ IssueDates(lastIO, CaseIndex(Combined.rows[i].idAffaire))
                = {[m |-> 7, d |-> 15, h |-> 0], [m |-> 8, d |-> 2, h |-> 0]}
          /\ Combined.rows[i].MontantFacturesHT = 1000
          /\ Combined.rows[i].DateEmission_Facture = Dmy(15, 7)

(* The answers of the batched detail calls with their records taken        *)
(* together and put in another order                                       *)
Reordered(det) ==
    LET recs == ConcatBodies(det)
    IN {<<[status |-> 200, body |-> [i \in 1..Len(recs) |-> recs[f[i]]]]>> :
            f \in Permutations(1..Len(recs))}

(* C20: the combined file the quote integration and the invoice            *)
(* integration write is the same for every order in which the batched      *)
(* detail calls return their records.                                      *)
C20_OrderIndependent ==
    [][/\ (At(8) /\ 8 \in okSteps')
            => \A det \in Reordered(lastIO'.det) :
                   LET out == fetch_and_update_devis(fs, date_start, lastIO'.lists, det)
                   IN out.ok /\ out.fs = fs'
       /\ (At(9) /\ 9 \in okSteps')
            => \A det \in Reordered(lastIO'.det) :
                   LET out == fetch_and_update_factures(fs, date_start, lastIO'.lists, det)
                   IN out.ok /\ out.fs = fs']_vars

(* Two quotes of 500 and 300 were summed for a case, then two invoices of  *)
(* 750 and 250 returned in the order 2, 1                                  *)
C20_Witness ==
    /\ LastOk(9)
    /\ Len(ConcatBodies(lastIO.det)) = 2
    /\ ConcatBodies(lastIO.det)[1].idFacture = 2
    /\ ConcatBodies(lastIO.det)[2].idFacture = 1
    /\ \E i \in 1..Len(Combined.rows) :
          /\ Combined.rows[i].MontantTotalHT = 800
          /\ Combined.rows[i].MontantFacturesHT = 1000

-----------------------------------------------------------------------------
(* The mapping lookups of fetch_affaire_details.py on any value a JSON     *)
(* record may carry.  A value is its Python type t, its integer part v and *)
(* for a text what it spells (s): "num" for the decimal digits of v, "dec" *)
(* for a decimal number such as "2.5", "abc" for a word.  json.loads reads *)
(* a number too large for a float (1e999) as float inf.                    *)
PyVal(t, v, s) == [t |-> t, v |-> v, s |-> s]

\* 2 is a state code, 10 a service and collaborator id, 3 a key of no table
LookupInts == {2, 3, 10}

PyValues ==
    {PyVal("int", n, "") : n \in LookupInts}
    \cup {PyVal("str", n, "num") : n \in LookupInts}
    \cup {PyVal("float", n, f) : n \in LookupInts, f \in {".0", ".7"}}
    \cup {PyVal("str", 2, "dec"), PyVal("str", 0, "abc"), PyVal("bool", 1, ""),
          PyVal("None", 0, ""), PyVal("list", 0, ""),
          PyVal("float", 0, "nan"), PyVal("float", 0, "inf")}

(* int(val): the integer, or the exception it raises *)
PyInt(val) ==
    CASE val.t \in {"int", "bool"} -> [exc |-> "none", v |-> val.v]
      [] val.t = "float" /\ val.s = "nan" -> [exc |-> "ValueError", v |-> 0]
      [] val.t = "float" /\ val.s = "inf" -> [exc |-> "OverflowError", v |-> 0]
      [] val.t = "float" -> [exc |-> "none", v |-> val.v]
      [] val.t = "str" /\ val.s = "num" -> [exc |-> "none", v |-> val.v]
      [] val.t = "str" -> [exc |-> "ValueError", v |-> 0]
      [] OTHER -> [exc |-> "TypeError", v |-> 0]

(* try: return MAPPING.get(int(val), val)                                  *)
(* except (TypeError, ValueError): return val                              *)
MappingGet(mapping, val) ==
    LET i == PyInt(val)
    IN IF i.exc = "none"
       THEN [raised |-> "none",
             value |-> IF i.v \in DOMAIN mapping
                       THEN PyVal("str", 0, mapping[i.v]) ELSE val]
       ELSE IF i.exc \in {"TypeError", "ValueError"}
       THEN [raised |-> "none", value |-> val]
       ELSE [raised |-> i.exc, value |-> PyVal("None", 0, "")]

(* SERVICE_MAPPING and COLLAB_MAPPING are read from files when the module  *)
(* is imported, and are empty when the file cannot be read                 *)
ServiceTables == {<<>>, (10 :> "Etudes")}
CollabTables == {<<>>, (10 :> "A. Martin")}

MappingOf(l, fn) ==
    CASE fn = "_map_etat" -> ETAT_MAPPING
      [] fn = "_map_service" -> l.SERVICE_MAPPING
      [] OTHER -> l.COLLAB_MAPPING

InitLookup ==
    /\ pc = "idle"
    /\ idx = 1
    /\ ret = "none"
    /\ results = <<>>
    /\ fs = [p \in Paths |-> AbsentFile]
    /\ started = <<>>
    /\ okSteps = {}
    /\ remoteErr = {}
    /\ lastIO = [step |-> 0, lists |-> <<>>, det |-> <<>>]
    /\ http = NoRequest
    /\ batch = NoBatch
    /\ lookup \in {[phase |-> "imported", SERVICE_MAPPING |-> sm, COLLAB_MAPPING |-> cm,
                    fn |-> "", val |-> PyVal("None", 0, ""),
                    res |-> [raised |-> "none", value |-> PyVal("None", 0, "")]] :
                     sm \in ServiceTables, cm \in CollabTables}
    /\ dash = NoDash
    /\ ui = NoUi
    /\ other = NoOther

(* A call fn(val) of one of the three lookups *)
Call(fn, val) ==
    /\ lookup' = [lookup EXCEPT !.phase = "called", !.fn = fn, !.val = val,
                                !.res = MappingGet(MappingOf(lookup, fn), val)]
    /\ UNCHANGED <<pc, idx, ret, results, fs, started, okSteps, remoteErr, lastIO,
                   http, batch, dash, ui, other>>

MapEtat == \E val \in PyValues : Call("_map_etat", val)

MapService == \E val \in PyValues : Call("_map_service", val)

MapCollaborateur == \E val \in PyValues : Call("_map_collaborateur", val)

NextLookup == MapEtat \/ MapService \/ MapCollaborateur

SpecLookup == InitLookup /\ [][NextLookup]_vars

(* C21: a call of _map_etat, _map_service or _map_collaborateur never      *)
(* raises; it returns the label of the table when the integer form of the  *)
(* value is a key of the table, and the value itself, unchanged, in every  *)
(* other case.                                                             *)
C21_LookupLabelOrSelf ==
    lookup.phase = "called" =>
        LET i == PyInt(lookup.val)
            mapping == MappingOf(lookup, lookup.fn)
        IN /\ lookup.res.raised = "none"
           /\ IF i.exc = "none" /\ i.v \in DOMAIN mapping
              THEN lookup.res.value = PyVal("str", 0, mapping[i.v])
              ELSE lookup.res.value = lookup.val

(* The state code of a record is the float inf and _map_etat raises        *)
(* OverflowError                                                           *)
C21_OverflowEscapes ==
    /\ lookup.phase = "called"
    /\ lookup.fn = "_map_etat"
    /\ lookup.val = PyVal("float", 0, "inf")
    /\ lookup.res.raised = "OverflowError"

-----------------------------------------------------------------------------
(* A run in a directory that holds the artifacts of an earlier run of the  *)
(* same month.                                                             *)

(* execute_step of run_step: the call of step.function with step.args for *)
(* the k-th step of ModuleoPipeline.steps, on the files on disk, with the  *)
(* results map res and the answers lists (per-case calls) and det (whole   *)
(* period and batched calls) of the API                                    *)
execute_step(k, files, res, lists, det) ==
    CASE k = 1 -> fetch_raw_tempspasses(files, date_start, det[1])
      [] k = 2 -> IF "raw_csv" \in DOMAIN res
                  THEN enrich_with_affaire(files, res["raw_csv"], det)
                  ELSE Raise(files, {})
      [] k = 3 -> IF "enriched_csv" \in DOMAIN res
                  THEN export_unique_affaires(files, res["enriched_csv"])
                  ELSE Raise(files, {})
      [] k = 4 -> fetch_and_export_affaires(files, date_start, lists)
      [] k = 5 -> calculate_prix_for_period(files, date_start, date_end, lists, det)
      [] k = 6 -> fetch_and_save_details(files, date_start, date_end, det)
      [] k = 7 -> fetch_and_merge_details(files, date_start, date_end, det)
      [] k = 8 -> fetch_and_update_devis(files, date_start, lists, det)
      [] OTHER -> fetch_and_update_factures(files, date_start, lists, det)

RECURSIVE RunFrom(_, _, _, _)
(* The files a run leaves when it executes the steps k.. on files with the *)
(* answers ios[k], ios[k + 1], ..: the for loop of run_pipeline            *)
RunFrom(k, files, res, ios) ==
    IF k > NSteps THEN files
    ELSE LET out == execute_step(k, files, res, ios[k].lists, ios[k].det)
         IN IF ~out.ok THEN out.fs
            ELSE RunFrom(k + 1, out.fs, (ResultKey(k) :> out.path) @@ res, ios)

Ok200(body) == [status |-> 200, body |-> body]

(* The answers the earlier run got: the pointages 8 and 9, the second of   *)
(* case 99, with a quote and an invoice of 900                             *)
EarlierIO ==
    LET case == <<Ok200(<<[idAffaire |-> 99, Etat |-> 1]>>)>>
    IN <<[lists |-> <<>>, det |-> <<Ok200(<<8, 9>>)>>],
         [lists |-> <<>>, det |-> <<Ok200(<<[idTempsPasse |-> 9, idAffaire |-> 99]>>)>>],
         [lists |-> <<>>, det |-> <<>>],
         [lists |-> <<Ok200(<<9>>)>>, det |-> <<>>],
         [lists |-> <<Ok200(<<9>>)>>, det |-> <<Ok200(<<PrixRec(9, Iso(7, 15, 0))>>)>>],
         [lists |-> <<>>, det |-> case],
         [lists |-> <<>>, det |-> case],
         [lists |-> <<Ok200(<<9>>)>>,
          det |-> <<Ok200(<<[idDevis |-> 9, Etat |-> 0, MontantTotalHT |-> 900]>>)>>],
         [lists |-> <<Ok200(<<9>>)>>,
          det |-> <<Ok200(<<[idFacture |-> 9, MontantTotalHT |-> 900,
                             DateEmission |-> Iso(7, 1, 0)]>>)>>]>>

(* The directory the earlier run left *)
EarlierFs == RunFrom(1, [p \in Paths |-> AbsentFile], <<>>, EarlierIO)

InitRerun ==
    /\ pc = "idle"
    /\ idx = 1
    /\ ret = "none"
    /\ results = <<>>
    /\ fs = EarlierFs
    /\ started = <<>>
    /\ okSteps = {}
    /\ remoteErr = {}
    /\ lastIO = [step |-> 0, lists |-> <<>>, det |-> <<>>]
    /\ http = NoRequest
    /\ batch = NoBatch
    /\ lookup = NoLookup
    /\ dash = NoDash
    /\ ui = NoUi
    /\ other = NoOther

Rerun ==
    [errs |-> {}, lerrs |-> {}, watch |-> 1..NSteps,
     raw |-> {AllEntries},
     enr |-> EnrichBodies({42, 43, NONE}),
     per4 |-> {<<>>} \cup OnePointage,
     per5 |-> {<<>>} \cup OnePointage,
     det |-> {InPeriodPrix},
     aff6 |-> {BothCases},
     aff7 |-> {<<>>, BothCases},
     dl |-> {<<>>, <<1>>},
     dd |-> {OneDevis},
     fl |-> {<<>>, <<1>>},
     fd |-> {OneFacture}]

NextRerun == NextOf(Rerun)

SpecRerun == InitRerun /\ [][NextRerun]_vars

(* The files of the directory that this run has written: a file that is    *)
(* still as the earlier run left it counts as not there                    *)
OfThisRun(files) ==
    [p \in Paths |-> IF files[p] = EarlierFs[p] THEN AbsentFile ELSE files[p]]

(* C22: whatever a step of a run reads was written earlier in the same     *)
(* run, under the YYYYMM of the period start: a step that succeeds in a    *)
(* directory holding the artifacts of an earlier run of the same month     *)
(* succeeds as well, and writes the same files, when only the files this   *)
(* run has written so far are there.                                       *)
C22_ReadsOwnArtifacts ==
    [][\A k \in 1..NSteps :
          (At(k) /\ k \in okSteps')
              => LET out == execute_step(k, OfThisRun(fs), results,
                                         lastIO'.lists, lastIO'.det)
                 IN out.ok /\ out.fs = OfThisRun(fs')]_vars

(* The run has succeeded in the directory of the earlier run and its       *)
(* combined file holds its own two cases only                              *)
C22_Witness ==
    /\ pc = "done" /\ ret = "True"
    /\ EarlierFs[CombinedPath(YM)].rows # <<>>
    /\ EarlierFs[CombinedPath(YM)].rows[1].idAffaire = 99
    /\ Len(Combined.rows) = 2
    /\ \A i \in 1..Len(Combined.rows) : Combined.rows[i].idAffaire \in {42, 43}
    /\ OfThisRun(fs) = [p \in Paths |-> fs[p]]

(* new has the rows of old, in the same order, with the same value in      *)
(* every column outside own, and the columns outside own in the same order *)
SameButFor(old, new, own) ==
    LET Others(cols) == LET Keep(c) == c \notin own IN SelectSeq(cols, Keep)
    IN /\ new.st = "ok"
       /\ Len(new.rows) = Len(old.rows)
       /\ Others(new.cols) = Others(old.cols)
       /\ Range(new.cols) = Range(old.cols) \cup own
       /\ \A i \in 1..Len(old.rows) :
             /\ DOMAIN new.rows[i] = DOMAIN old.rows[i] \cup own
             /\ \A c \in DOMAIN old.rows[i] \ own : new.rows[i][c] = old.rows[i][c]

(* C23: the quote integration and the invoice integration keep the rows of *)
(* the combined file (same cases, same number, same order) and the values  *)
(* and order of the columns they do not own; each replaces only its own    *)
(* columns, MontantTotalHT resp. MontantFacturesHT and                     *)
(* DateEmission_Facture, also when the file already has them.              *)
C23_OnlyOwnColumns ==
    [][/\ (At(8) /\ 8 \in okSteps')
            => SameButFor(Combined, fs'[CombinedPath(YM)], {"MontantTotalHT"})
       /\ (At(9) /\ 9 \in okSteps')
            => /\ SameButFor(Combined, fs'[CombinedPath(YM)],
                             {"MontantFacturesHT", "DateEmission_Facture"})
               /\ SameButFor(fs'[CombinedPath(YM)],
                             fetch_and_update_devis(fs', date_start,
                                 [k \in 1..Len(Unique.rows) |-> Ok200(<<>>)],
                                 <<>>).fs[CombinedPath(YM)],
                             {"MontantTotalHT"})
               /\ SameButFor(fs'[CombinedPath(YM)],
                             fetch_and_update_factures(fs', date_start,
                                 lastIO'.lists, lastIO'.det).fs[CombinedPath(YM)],
                             {"MontantFacturesHT", "DateEmission_Facture"})]_vars

(* Both integrations have run on a file of two cases: the columns of the   *)
(* merge step are there, followed by the quote and the invoice columns     *)
C23_Witness ==
    /\ LastOk(9)
    /\ Combined.cols = <<"idAffaire", "Etat", "DateCloture", "PrixVenteCollaborateur",
                         "MontantTotalHT", "MontantFacturesHT", "DateEmission_Facture">>
    /\ Len(Combined.rows) = 2
    /\ Combined.rows[1].MontantTotalHT = 500
    /\ Combined.rows[1].MontantFacturesHT = 0
    /\ Combined.rows[2].MontantTotalHT = 0
    /\ Combined.rows[2].MontantFacturesHT = 750

(* The step at index k has just failed on a GET that ended in an error *)
RemoteFailure(k) ==
    /\ At(k)
    /\ k \notin okSteps'
    /\ \E e \in remoteErr' \ remoteErr : e.step = k

(* C24: when the quote integration or the invoice integration fails        *)
(* because a GET fails, while listing the quotes or invoices of a case or  *)
(* while fetching their details in batches, every file on disk, the        *)
(* combined file among them, is left exactly as it was when the step       *)
(* started.                                                                *)
C24_RemoteFailureLeavesFile ==
    [][(RemoteFailure(8) \/ RemoteFailure(9)) => fs' = fs]_vars

(* The batched quote call answered 503: step 8 failed and the combined     *)
(* file is as the merge step wrote it, without the quote column            *)
C24_Witness ==
    /\ started = <<1, 2, 3, 4, 5, 6, 7, 8>>
    /\ 8 \notin okSteps
    /\ [step |-> 8, call |-> "multi", status |-> 503] \in remoteErr
    /\ Combined.st = "ok" /\ Combined.rows # <<>>
    /\ "MontantTotalHT" \notin Range(Combined.cols)

(* The closure date of the record is a date on a calendar day after the    *)
(* period end day                                                          *)
ClosedOnLaterDay(rec) ==
    /\ "DateCloture" \in DOMAIN rec
    /\ Parses(rec.DateCloture)
    /\ rec.DateCloture.m * 100 + rec.DateCloture.d > date_end.m * 100 + date_end.d

(* C25: the case-detail step changes a state only by the reclassification  *)
(* rule: a case whose state code is not 2, or whose closure date is        *)
(* missing, is not a date, or falls on a calendar day on or before the     *)
(* period end day (a later time of the end day included), is written with  *)
(* the label its state code maps to.                                       *)
C25_OtherwiseMappedLabel ==
    LastOk(6)
        => LET recs == ConcatBodies(lastIO.det)
           IN \A i \in 1..Len(recs) :
                 (Get(recs[i], "Etat") # 2 \/ ~ClosedOnLaterDay(recs[i]))
                     => Details.rows[i].Etat = _map_etat(Get(recs[i], "Etat"))

(* Closed on "12/07/2025", inside the period, and written as "Production" *)
C25_EarlierDateReclassified ==
    /\ LastOk(6)
    /\ ConcatBodies(lastIO.det) = <<[idAffaire |-> 42, Etat |-> 2, DateCloture |-> Dmy(12, 7)]>>
    /\ Details.rows[1].Etat = "Production"

(* The cases the claim names that the code does keep: the end day at 10:00 *)
(* and a closure date that is not a date stay "Cloturee"                   *)
C25_EndDayAndBadDateKept ==
    /\ LastOk(6)
    /\ ConcatBodies(lastIO.det) =
          <<[idAffaire |-> 42, Etat |-> 2, DateCloture |-> Iso(7, 31, 10)],
            [idAffaire |-> 42, Etat |-> 2, DateCloture |-> NotADate]>>
    /\ Details.rows[1].Etat = "Cloturee"
    /\ Details.rows[2].Etat = "Cloturee"

-----------------------------------------------------------------------------
(* The finished pipeline: get_final_csv and prepare_dashboard_data, called *)
(* on an instance before its run or after it                               *)

(* What dict.get returns for a missing key *)
NoPath == "None"

(* get_final_csv: self.results.get('final_csv') *)
get_final_csv(res) == IF "final_csv" \in DOMAIN res THEN res["final_csv"] ELSE NoPath

(* os.path.exists(final_csv) *)
PathExists(files, p) == p \in DOMAIN files /\ files[p].st # "absent"

(* prepare_dashboard_data: False when there is no final CSV, otherwise the *)
(* final CSV is copied to dashboard_data.csv                               *)
prepare_dashboard_data(res, files, d) ==
    LET final_csv == get_final_csv(res)
    IN IF final_csv = NoPath \/ ~PathExists(files, final_csv)
       THEN [d EXCEPT !.prepared = "False"]
       ELSE [d EXCEPT !.prepared = "True", !.copy = files[final_csv]]

GetFinalCsv ==
    /\ pc \in {"idle", "done"}
    /\ dash' = [dash EXCEPT !.final = get_final_csv(results)]
    /\ UNCHANGED <<pc, idx, ret, results, fs, started, okSteps, remoteErr, lastIO,
                   http, batch, lookup, ui, other>>

PrepareDashboardData ==
    /\ pc \in {"idle", "done"}
    /\ dash' = prepare_dashboard_data(results, fs, dash)
    /\ UNCHANGED <<pc, idx, ret, results, fs, started, okSteps, remoteErr, lastIO,
                   http, batch, lookup, ui, other>>

NextDash ==
    \/ NextOf(Base)
    \/ GetFinalCsv
    \/ PrepareDashboardData

SpecDash == Init /\ [][NextDash]_vars

(* The instance has not run, or its run has failed *)
FreshOrFailed == pc = "idle" \/ ret = "False"

(* C26: get_final_csv returns a path only when all nine steps of the run   *)
(* have succeeded; on an instance that has not run and after a run that    *)
(* failed at some step it returns None, the results map holds exactly one  *)
(* entry per succeeded step, a failed step adding none, and                *)
(* prepare_dashboard_data returns False and copies no file.                *)
C26_FinalCsvOnlyAfterFullRun ==
    /\ [](/\ DOMAIN results = {ResultKey(k) : k \in okSteps}
          /\ Cardinality(DOMAIN results) = Cardinality(okSteps))
    /\ [][dash'.final # dash.final
            => /\ dash'.final # NoPath => okSteps = 1..NSteps /\ ret = "True"
               /\ FreshOrFailed => dash'.final = NoPath]_vars
    /\ [][FreshOrFailed
            => /\ dash'.copy = dash.copy
               /\ dash'.prepared # dash.prepared => dash'.prepared = "False"]_vars

(* The run failed at its last step: eight results, no final CSV, and the   *)
(* dashboard was not prepared although the combined file is on disk        *)
C26_Witness ==
    /\ pc = "done" /\ ret = "False"
    /\ okSteps = 1..8 /\ started = <<1, 2, 3, 4, 5, 6, 7, 8, 9>>
    /\ Cardinality(DOMAIN results) = 8
    /\ dash = [final |-> NoPath, prepared |-> "False", copy |-> AbsentFile]
    /\ Combined.st = "ok"

-----------------------------------------------------------------------------
(* An id listed under several cases *)

(* The combined file's total of column col over the cases, a case counted  *)
(* once                                                                    *)
TotalOverCases(col) ==
    LET ids == SortedSeq({Combined.rows[i].idAffaire : i \in 1..Len(Combined.rows)})
        RowOf(a) == CHOOSE i \in 1..Len(Combined.rows) : Combined.rows[i].idAffaire = a
    IN SumSeq([k \in 1..Len(ids) |-> Combined.rows[RowOf(ids[k])][col]])

(* The amounts of the ordered quotes of the batched answer *)
OrderedAmounts(io) ==
    LET Ordered(rec) == PyOr(Get(rec, "etat"), Get(rec, "Etat")) = 0
        q == SelectSeq(ConcatBodies(io.det), Ordered)
    IN SumSeq([i \in 1..Len(q) |-> q[i].MontantTotalHT])

(* The amounts of the invoices of the batched answer *)
InvoiceAmounts(io) ==
    LET f == ConcatBodies(io.det)
    IN SumSeq([i \in 1..Len(f) |-> f[i].MontantTotalHT])

(* The batched answer describes each id by one record at most *)
OneRecordPerId(io, key) ==
    \A i, j \in 1..Len(ConcatBodies(io.det)) :
        ConcatBodies(io.det)[i][key] = ConcatBodies(io.det)[j][key] => i = j

(* Some id is listed under two cases *)
ListedTwice(io) ==
    \E k1, k2 \in 1..Len(io.lists) :
        k1 # k2 /\ Range(io.lists[k1].body) \cap Range(io.lists[k2].body) # {}

-----------------------------------------------------------------------------
(* app.py: the Streamlit script.  Every interaction of the user runs main  *)
(* from the top with the session state the last run left; ui holds         *)
(* st.session_state, the two date widgets, the environment the             *)
(* configuration was read from, and two history fields: runs, the number   *)
(* of run_pipeline calls made, and session, "in" after a successful login, *)
(* "out" after a click on the logout button and "back" after a successful  *)
(* login that follows a logout.                                            *)

MaxRuns == 2

Users == {"u1", "u2"}

(* What the user did to cause the script run *)
Events ==
    {[kind |-> k, user |-> "", match |-> FALSE, forward |-> TRUE] :
        k \in {"load", "logout", "execute"}}
    \cup {[kind |-> "login", user |-> u, match |-> b, forward |-> TRUE] :
            u \in Users \cup {"unknown"}, b \in BOOLEAN}
    \cup {[kind |-> "dates", user |-> "", match |-> FALSE, forward |-> b] :
            b \in BOOLEAN}

(* The answers the nine steps of a run started from the page may get: the  *)
(* answers of EarlierIO, the same with the first GET, the batched invoice  *)
(* GET or the case-detail GET ending in 503, and the same with no quote    *)
(* described                                                               *)
AppIO ==
    {EarlierIO,
     [EarlierIO EXCEPT ![1].det = <<[status |-> 503, body |-> <<>>]>>],
     [EarlierIO EXCEPT ![9].det = <<[status |-> 503, body |-> <<>>]>>],
     [EarlierIO EXCEPT ![8].det = <<Ok200(<<>>)>>],
     [EarlierIO EXCEPT ![6].det = <<[status |-> 503, body |-> <<>>]>>]}

(* run_pipeline on a new instance, to its end: what it returns, the        *)
(* directory it leaves and its results map                                 *)
RECURSIVE run_to_end(_, _, _, _)
run_to_end(k, files, res, ios) ==
    IF k > NSteps THEN [ret |-> TRUE, fs |-> files, results |-> res]
    ELSE LET out == execute_step(k, files, res, ios[k].lists, ios[k].det)
         IN IF ~out.ok THEN [ret |-> FALSE, fs |-> out.fs, results |-> res]
            ELSE run_to_end(k + 1, out.fs, (ResultKey(k) :> out.path) @@ res, ios)

(* config.validate(): both credentials of the API are set *)
validate(u) == u.config_ok

(* validate_date_range *)
validate_date_range(start_dt, end_dt) == ~DayAfter(start_dt, end_dt)

(* A logout button that leaves the session authenticated *)
show_user_info_no_reset(u, ev) == u

(* show_user_info: the logout button *)
show_user_info(u, ev) ==
    IF ev.kind = "logout" THEN [u EXCEPT !.authenticated = FALSE, !.name = ""] ELSE u

(* authenticate_user: the login form *)
authenticate_user(u, ev) ==
    IF ~u.users_ok THEN u
    ELSE IF ev.kind = "login" /\ ev.user \in Users /\ ev.match
    THEN [u EXCEPT !.authenticated = TRUE, !.name = ev.user]
    ELSE u

(* The date widgets after the event *)
DateWidgets(u, ev) ==
    IF ev.kind # "dates" THEN u
    ELSE IF ev.forward THEN [u EXCEPT !.start = date_start, !.end = date_end]
    ELSE [u EXCEPT !.start = date_end, !.end = date_start]

(* main, down to `if execute_pipeline:`: the session it leaves and whether *)
(* the block that creates and runs the pipeline is entered                 *)
main(u0, ev) ==
    LET u == DateWidgets(u0, ev)
    IN IF ~validate(u) THEN [ui |-> u, run |-> FALSE]
       ELSE IF ~u.authenticated THEN [ui |-> authenticate_user(u, ev), run |-> FALSE]
       ELSE IF ev.kind = "logout" THEN [ui |-> show_user_info(u, ev), run |-> FALSE]
       ELSE IF ~validate_date_range(u.start, u.end) THEN [ui |-> u, run |-> FALSE]
       ELSE [ui |-> u, run |-> ev.kind = "execute"]

(* The history of the session: a login that succeeded, a logout clicked *)
SessionAfter(u, ev) ==
    IF validate(u) /\ ~u.authenticated /\ u.users_ok
       /\ ev.kind = "login" /\ ev.user \in Users /\ ev.match
    THEN (IF u.session = "new" THEN "in" ELSE "back")
    ELSE IF validate(u) /\ u.authenticated /\ ev.kind = "logout" THEN "out"
    ELSE u.session

InitApp ==
    /\ pc = "idle"
    /\ idx = 1
    /\ ret = "none"
    /\ results = <<>>
    /\ fs = [p \in Paths |-> AbsentFile]
    /\ started = <<>>
    /\ okSteps = {}
    /\ remoteErr = {}
    /\ lastIO = [step |-> 0, lists |-> <<>>, det |-> <<>>]
    /\ http = NoRequest
    /\ batch = NoBatch
    /\ lookup = NoLookup
    /\ dash = NoDash
    /\ ui \in {[config_ok |-> c, users_ok |-> h, authenticated |-> FALSE, name |-> "",
                start |-> date_start, end |-> date_end, pipeline_results |-> NoPath,
                runs |-> 0, session |-> "new"] : c \in BOOLEAN, h \in BOOLEAN}
    /\ other = NoOther

(* One run of the script *)
ScriptRun(ev) ==
    LET m == main(ui, ev)
        u == [m.ui EXCEPT !.session = SessionAfter(ui, ev)]
    IN IF ~m.run
       THEN /\ ui' = u
            /\ UNCHANGED <<pc, idx, ret, results, fs, started, okSteps, remoteErr,
                           lastIO, http, batch, lookup, dash, other>>
       ELSE /\ ui.runs < MaxRuns
            /\ \E io \in AppIO :
                  LET r == run_to_end(1, fs, <<>>, io)
                  IN /\ fs' = r.fs
                     /\ dash' = IF r.ret
                                THEN [prepare_dashboard_data(r.results, r.fs, dash)
                                        EXCEPT !.final = get_final_csv(r.results)]
                                ELSE dash
                     /\ ui' = [u EXCEPT !.runs = @ + 1,
                                        !.pipeline_results =
                                            IF r.ret THEN get_final_csv(r.results) ELSE @]
            /\ UNCHANGED <<pc, idx, ret, results, started, okSteps, remoteErr,
                           lastIO, http, batch, lookup, other>>

NextApp == \E ev \in Events : ScriptRun(ev)

SpecApp == InitApp /\ [][NextApp]_vars

(* C28: run_pipeline is started from the page only in a session that is    *)
(* authenticated (a login succeeded and no logout followed it), with a     *)
(* configuration that passed validation and a start date not after the end *)
(* date; after a logout no run starts before a new successful login.       *)
C28_RunOnlyWhenAuthenticated ==
    [][ui'.runs # ui.runs
         => /\ ui.authenticated /\ ui.session \in {"in", "back"}
            /\ ui.config_ok
            /\ ~DayAfter(ui'.start, ui'.end)]_vars

(* A run was made, the user logged out, logged in again and made a second  *)
(* run                                                                     *)
C28_Witness ==
    /\ ui.runs = 2 /\ ui.session = "back" /\ ui.authenticated
    /\ ui.name = "u2"
    /\ ui.pipeline_results = CombinedPath(YM)
    /\ dash.prepared = "True"

-----------------------------------------------------------------------------
(* Two runs at once.  Two sessions of the application each create a        *)
(* ModuleoPipeline for the period and run it in the same working           *)
(* directory; the steps of the two runs interleave.  The pipeline of the   *)
(* first session is the run of pc, idx and results; other is the run of    *)
(* the second session.                                                     *)

(* What the API answers the first run: the answers of EarlierIO *)
Alone ==
    [errs |-> {}, lerrs |-> {}, watch |-> {},
     raw |-> {EarlierIO[1].det[1].body},
     enr |-> {EarlierIO[2].det[1].body},
     per4 |-> {EarlierIO[4].lists[1].body},
     per5 |-> {EarlierIO[5].lists[1].body},
     det |-> {EarlierIO[5].det[1].body},
     aff6 |-> {EarlierIO[6].det[1].body},
     aff7 |-> {EarlierIO[7].det[1].body},
     dl |-> {EarlierIO[8].lists[1].body},
     dd |-> {EarlierIO[8].det[1].body},
     fl |-> {EarlierIO[9].lists[1].body},
     fd |-> {EarlierIO[9].det[1].body}]

(* What the API answers the second run: the same, or the same with a       *)
(* quote of 400 instead of 900                                             *)
OtherIO ==
    {EarlierIO,
     [EarlierIO EXCEPT ![8].det =
        <<Ok200(<<[idDevis |-> 9, Etat |-> 0, MontantTotalHT |-> 400]>>)>>]}

InitTwo ==
    /\ pc = "idle"
    /\ idx = 1
    /\ ret = "none"
    /\ results = <<>>
    /\ fs = [p \in Paths |-> AbsentFile]
    /\ started = <<>>
    /\ okSteps = {}
    /\ remoteErr = {}
    /\ lastIO = [step |-> 0, lists |-> <<>>, det |-> <<>>]
    /\ http = NoRequest
    /\ batch = NoBatch
    /\ lookup = NoLookup
    /\ dash = NoDash
    /\ ui = NoUi
    /\ other \in {[pc |-> "idle", idx |-> 1, ret |-> "none", results |-> <<>>, io |-> io] :
                    io \in OtherIO}

(* run_pipeline is called in the second session *)
OtherStart ==
    /\ other.pc = "idle"
    /\ other' = [other EXCEPT !.pc = "running"]
    /\ UNCHANGED <<pc, idx, ret, results, fs, started, okSteps, remoteErr, lastIO,
                   http, batch, lookup, dash, ui>>

(* One iteration of the for loop of run_pipeline in the second session *)
OtherStep ==
    /\ other.pc = "running"
    /\ LET k == other.idx
           out == execute_step(k, fs, other.results, other.io[k].lists, other.io[k].det)
       IN /\ fs' = out.fs
          /\ other' = [other EXCEPT
                !.results = IF out.ok THEN (ResultKey(k) :> out.path) @@ @ ELSE @,
                !.idx = IF out.ok /\ k < NSteps THEN k + 1 ELSE @,
                !.pc = IF ~out.ok \/ k = NSteps THEN "done" ELSE @,
                !.ret = IF ~out.ok THEN "False" ELSE IF k = NSteps THEN "True" ELSE @]
    /\ UNCHANGED <<pc, idx, ret, results, started, okSteps, remoteErr, lastIO,
                   http, batch, lookup, dash, ui>>

NextTwo ==
    \/ NextOf(Alone)
    \/ OtherStart
    \/ OtherStep

SpecTwo == InitTwo /\ [][NextTwo]_vars

(* The combined file a run with the answers io leaves when it runs alone *)
AloneCombined(io) ==
    RunFrom(1, [p \in Paths |-> AbsentFile], <<>>, io)[CombinedPath(YM)]

(* C29: when two runs for periods that start in the same calendar month    *)
(* execute at the same time, the affaires_combinees file each run ends     *)
(* with is the one it would have produced alone: no interleaving of the    *)
(* two runs mixes rows, columns or totals.                                 *)
C29_ConcurrentRunsIsolated ==
    /\ [][(pc = "running" /\ pc' = "done" /\ ret' = "True")
            => fs'[CombinedPath(YM)] = AloneCombined(EarlierIO)]_vars
    /\ [][(other.pc = "running" /\ other'.pc = "done" /\ other'.ret = "True")
            => fs'[CombinedPath(YM)] = AloneCombined(other.io)]_vars

(* The second run merged details and prices after the first run had        *)
(* integrated its quotes: the first run ends successfully on a combined    *)
(* file without the quote column                                           *)
C29_QuoteColumnLost ==
    /\ pc = "done" /\ ret = "True"
    /\ other.pc = "running" /\ other.idx = 8
    /\ "MontantFacturesHT" \in Range(Combined.cols)
    /\ "MontantTotalHT" \notin Range(Combined.cols)
    /\ "MontantTotalHT" \in Range(AloneCombined(EarlierIO).cols)

=============================================================================
